---- MODULE Spec2Model ----
(***************************************************************************)
(* Model of code-search-mcp: the index facade (internal/index/index.go),   *)
(* the orchestrator (internal/analyzer/analyzer.go) and the debounced      *)
(* watcher (internal/fs/watcher.go).                                       *)
(*                                                                         *)
(* Strings that the code joins and splits on "::" are sequences of         *)
(* segments: the chunk path Outer::inner is <<"Outer", "inner">> and the   *)
(* chunk ID file::Outer::inner is <<file, "Outer", "inner">>.  Decimal     *)
(* strings (strconv) are sequences of digits.  The workspace root is the   *)
(* process's working directory (the default, main.go:20), so a relative    *)
(* path names the same file for os.Stat and for the parser.                *)
(***************************************************************************)
EXTENDS Integers, Sequences, FiniteSets, TLC

VARIABLES
    disk,           \* the workspace files: path -> [exists, mtime, ver]
    now,            \* the wall clock, in whole seconds (time.Now().Unix())
    store,          \* the chromem collection: a set of documents, one per ID
    cache,          \* Index.cache: from the cached paths to metadata lists
    call,           \* per goroutine: the call it is in and that call's locals
    nPendingFiles,  \* Analyzer.nPendingFiles
    lastIndexedAt,  \* Analyzer.lastIndexedAt (ZeroTime until a batch completes)
    pendingFiles,   \* Watcher.pendingFiles
    debounceTimer,  \* Watcher.debounceTimer: "nil", "armed", "due", "fired", "stopped"
    fired,          \* timer callbacks started and not yet holding Watcher.mu
    closed,         \* Watcher.Close has returned (ctx cancelled)
    events,         \* files with a filesystem event not yet received
    loop            \* the event Watcher.watch has received and is handling

env == <<disk, now>>
index == <<store, cache>>
progress == <<nPendingFiles, lastIndexedAt>>
watch == <<pendingFiles, debounceTimer, fired, closed, events, loop>>
vars == <<disk, now, store, cache, call, nPendingFiles, lastIndexedAt,
          pendingFiles, debounceTimer, fired, closed, events, loop>>

-----------------------------------------------------------------------------
(* Bounds *)

MaxTime == 2        \* the clock runs over 0..MaxTime
MaxFired == 2       \* timer callbacks that may be waiting for Watcher.mu at once
NumVers == 3        \* distinct contents a file can have

-----------------------------------------------------------------------------
(* Data *)

Files == {"a.ts", "b.test.ts"}
Versions == 1..NumVers

\* The contents each file takes: a.ts is edited, b.test.ts is written once.
ContentsOf(f) == IF f = "a.ts" THEN Versions ELSE {1}
Times == 0..MaxTime
NoFile == "-"
ZeroTime == -1      \* time.Time{}: lastIndexedAt.IsZero()

\* The goroutines that can be inside the index at once: the watcher's timer
\* callback, the background reconciliation and a tool request.
Procs == {"watcher", "reconcile", "request"}

\* What one extraction pass over a file's content yields, as chunk paths in
\* traversal order.  Content 1 has two declarations, content 2 lost one of
\* them, content 3 has nothing chunkable (imports only), any other content
\* has one renamed declaration.
ChunkPaths(ver) ==
    CASE ver = 1 -> << <<"foo">>, <<"bar">> >>
      [] ver = 2 -> << <<"foo">> >>
      [] ver = 3 -> << >>
      [] OTHER   -> << <<"baz">> >>

\* A workspace path as its segments, each segment as its dot-separated parts:
\* tests/dist/f.ts is << <<"tests">>, <<"dist">>, <<"f", ".ts">> >>.
PathOf(f) ==
    CASE f = "a.ts"            -> << <<"a", ".ts">> >>
      [] f = "b.test.ts"       -> << <<"b", ".test", ".ts">> >>
      [] f = "dist/c.ts"       -> << <<"dist">>, <<"c", ".ts">> >>
      [] f = "docs/d.ts"       -> << <<"docs">>, <<"d", ".ts">> >>
      [] f = "coverage/e.ts"   -> << <<"coverage">>, <<"e", ".ts">> >>
      [] f = "tests/dist/f.ts" -> << <<"tests">>, <<"dist">>, <<"f", ".ts">> >>
      [] f = "lib/docs/g.ts"   -> << <<"lib">>, <<"docs">>, <<"g", ".ts">> >>
      [] OTHER                 -> << <<f>> >>

\* A FileTypeRule; the pattern is written in segments like a path, with
\* <<"**">> for any number of segments and a leading "*" for any stem.
Rule(pattern, type) == [Pattern |-> pattern, Type |-> type]

\* The universal rules, in the order of the table.
globalFileTyleRules ==
    << Rule(<< <<"**">>, <<"tests">>, <<"**">> >>, "tests"),
       Rule(<< <<"**">>, <<"test">>, <<"**">> >>, "tests"),
       Rule(<< <<"**">>, <<"testdata">>, <<"**">> >>, "tests"),
       Rule(<< <<"docs">>, <<"**">> >>, "docs"),
       Rule(<< <<"doc">>, <<"**">> >>, "docs"),
       Rule(<< <<".git">>, <<"**">> >>, "ignore"),
       Rule(<< <<"coverage">>, <<"**">> >>, "ignore"),
       Rule(<< <<".coverage">>, <<"**">> >>, "ignore") >>

\* TypeScriptSpec.FileTypeRules, in the order of the table.
FileTypeRules ==
    << Rule(<< <<"**">>, <<"*", ".test", ".ts">> >>, "tests"),
       Rule(<< <<"**">>, <<"*", ".test", ".tsx">> >>, "tests"),
       Rule(<< <<"**">>, <<"*", ".spec", ".ts">> >>, "tests"),
       Rule(<< <<"**">>, <<"*", ".spec", ".tsx">> >>, "tests"),
       Rule(<< <<"**">>, <<"node_modules">>, <<"**">> >>, "ignore"),
       Rule(<< <<"**">>, <<"dist">>, <<"**">> >>, "ignore"),
       Rule(<< <<"**">>, <<"build">>, <<"**">> >>, "ignore") >>

\* One pattern segment against one path segment: "*" followed by a suffix
\* matches any segment that ends with that suffix.
SegmentMatch(pat, seg) ==
    IF Head(pat) = "*"
    THEN /\ Len(seg) >= Len(pat) - 1
         /\ SubSeq(seg, Len(seg) - Len(pat) + 2, Len(seg)) = Tail(pat)
    ELSE seg = pat

\* doublestar.PathMatch(pattern, path).
RECURSIVE PathMatch(_, _)
PathMatch(pattern, path) ==
    IF pattern = <<>> THEN path = <<>>
    ELSE IF Head(pattern) = <<"**">>
    THEN \/ PathMatch(Tail(pattern), path)
         \/ path # <<>> /\ PathMatch(pattern, Tail(path))
    ELSE /\ path # <<>>
         /\ SegmentMatch(Head(pattern), Head(path))
         /\ PathMatch(Tail(pattern), Tail(path))

\* for _, rule := range rules: the type of the first rule from position i on
\* that matches, "" when none does.
RECURSIVE FirstMatch(_, _, _)
FirstMatch(rules, i, path) ==
    IF i > Len(rules) THEN ""
    ELSE IF PathMatch(rules[i].Pattern, path) THEN rules[i].Type
    ELSE FirstMatch(rules, i + 1, path)

\* A classification that consults the language's rules before the global ones.
classifyFileTypeLanguageFirst(f) ==
    LET own == FirstMatch(FileTypeRules, 1, PathOf(f))
        global == FirstMatch(globalFileTyleRules, 1, PathOf(f))
    IN IF own # "" THEN own ELSE IF global # "" THEN global ELSE "src"

\* Parser.classifyFileType: the global rules, then the language's, then src.
classifyFileType(f) ==
    LET global == FirstMatch(globalFileTyleRules, 1, PathOf(f))
        own == FirstMatch(FileTypeRules, 1, PathOf(f))
    IN IF global # "" THEN global ELSE IF own # "" THEN own ELSE "src"

Range(s) == {s[i] : i \in DOMAIN s}

\* strconv.FormatInt(n, 10) for n >= 0: the decimal digits, most significant first.
RECURSIVE FormatInt(_)
FormatInt(n) == IF n < 10 THEN <<n>> ELSE Append(FormatInt(n \div 10), n % 10)

\* strconv.ParseInt(s, 10, 64) on a digit string.
RECURSIVE ParseInt(_)
ParseInt(s) ==
    IF s = <<>> THEN 0
    ELSE 10 * ParseInt(SubSeq(s, 1, Len(s) - 1)) + s[Len(s)]

\* Chunk.ID: File + "::" + Path.
ID(c) == <<c.File>> \o c.Path

\* strings.SplitN(id, "::", 2): everything before the first "::", and the rest.
SplitN2(id) == IF Len(id) < 2 THEN <<id>> ELSE <<Head(id), Tail(id)>>

\* Parser.newChunk: the chunk of path p cut from content ver of file f at time t
\* (summary and positions are left empty where contents are numbered).
newChunk(f, ver, p, t) ==
    [File |-> f, Type |-> classifyFileType(f), Path |-> p, Summary |-> <<>>,
     Source |-> ver, Start |-> <<>>, End |-> <<>>, ParsedAt |-> t]

\* The chromem.Document that Index.Index builds from a chunk.
Document(file, c) ==
    [ID |-> ID(c),
     Metadata |-> [file |-> file, type |-> c.Type, path |-> c.Path,
                   summary |-> c.Summary, start |-> c.Start, end |-> c.End,
                   parsedAt |-> FormatInt(c.ParsedAt)],
     Content |-> c.Source]

\* The ChunkMetadata projection kept in the cache.
ChunkMetadata(c) == [Type |-> c.Type, Path |-> c.Path, ParsedAt |-> c.ParsedAt]

\* Index.GetChunk: the parser.Chunk rebuilt from a stored document.
GetChunk(doc) ==
    [File |-> doc.Metadata.file, Type |-> doc.Metadata.type,
     Path |-> doc.Metadata.path, Summary |-> doc.Metadata.summary,
     Source |-> doc.Content, Start |-> doc.Metadata.start,
     End |-> doc.Metadata.end, ParsedAt |-> ParseInt(doc.Metadata.parsedAt)]

-----------------------------------------------------------------------------
(* The vector store (chromem-go), at its boundary *)

\* collection.Delete(ctx, {"file": f}, nil): drops every document whose file
\* metadata is f.
\* (variant for the checks: the filter names the wrong metadata key, so it
\* matches no document)
StoreDeleteWrongKey(st, f) == {d \in st : d.Metadata.path # <<f>>}

StoreDelete(st, f) == {d \in st : d.Metadata.file # f}

\* The documents of st whose file metadata is f.
StoredFor(st, f) == {d \in st : d.Metadata.file = f}

\* Documents are kept by ID: adding a document replaces the one with its ID.
Upsert(st, docs) ==
    {d \in st : \A n \in docs : n.ID # d.ID} \cup docs

UniqueIDs(docs) == \A d, e \in docs : d.ID = e.ID => d = e

\* collection.AddDocuments(ctx, docs, n): every document is added, concurrently;
\* of two documents with one ID either may be the one that stays.
AddDocuments(st, docs) ==
    {Upsert(st, S) : S \in {T \in SUBSET Range(docs) :
        /\ UniqueIDs(T)
        /\ {d.ID : d \in T} = {d.ID : d \in Range(docs)}}}

\* AddDocuments returning an error: some of the documents may have been added.
AddDocumentsFailed(st, docs) ==
    {Upsert(st, S) : S \in {T \in SUBSET Range(docs) :
        /\ UniqueIDs(T)
        /\ {d.ID : d \in T} # {d.ID : d \in Range(docs)}}}

-----------------------------------------------------------------------------
(* Index.IsStale *)

\* The loop of IsStale: the largest ParsedAt, starting from 0.
RECURSIVE MaxParsedAt(_)
MaxParsedAt(chunks) ==
    IF chunks = <<>> THEN 0
    ELSE LET m == MaxParsedAt(Tail(chunks))
         IN  IF Head(chunks).ParsedAt > m THEN Head(chunks).ParsedAt ELSE m

\* (variant for the checks: >= in place of >)
IsStaleGeq(dk, ch, f) ==
    IF ~dk[f].exists THEN TRUE
    ELSE IF f \notin DOMAIN ch \/ Len(ch[f]) = 0 THEN TRUE
    ELSE dk[f].mtime >= MaxParsedAt(ch[f])

IsStale(dk, ch, f) ==
    IF ~dk[f].exists THEN TRUE
    ELSE IF f \notin DOMAIN ch \/ Len(ch[f]) = 0 THEN TRUE
    ELSE dk[f].mtime > MaxParsedAt(ch[f])

-----------------------------------------------------------------------------
(* Calls *)

\* The calls that run Analyzer.processFiles over a batch of files.
BatchOps == {"handler", "reconcile"}

\* A goroutine outside any call.  cache0 and store0 are what the cache and the
\* store were when the current call began, given is the slice processFiles
\* was called with, and added lists the paths of the watcher's pending set
\* in the order in which they joined it, failed the files of the batch whose
\* Parser.Chunk returned an error (all read by the properties only).
Idle == [pc |-> "idle", op |-> "-", file |-> NoFile, src |-> 0,
         chunks |-> <<>>, err |-> FALSE, res |-> FALSE,
         id |-> <<>>, batch |-> <<>>, todo |-> {}, fileChunks |-> <<>>,
         results |-> <<>>, minSim |-> 0, maxCount |-> 0, types |-> {},
         cache0 |-> <<>>, store0 |-> {},
         awaiting |-> {}, gone |-> {},
         pending |-> 0, last |-> ZeroTime,
         ids |-> <<>>, asked |-> <<>>, blocks |-> <<>>, pass |-> 0,
         given |-> <<>>, added |-> <<>>, failed |-> {},
         left |-> 0, read |-> 0]

Init ==
    /\ disk = [f \in Files |-> [exists |-> FALSE, mtime |-> 0, ver |-> 1]]
    /\ now = 0
    /\ store = {}
    /\ cache = <<>>
    /\ call = [p \in Procs |-> Idle]
    /\ nPendingFiles = 0
    /\ lastIndexedAt = ZeroTime
    /\ pendingFiles = {}
    /\ debounceTimer = "nil"
    /\ fired = 0
    /\ closed = FALSE
    /\ events = {}
    /\ loop = NoFile

\* No call is in progress.
AllIdle == \A p \in Procs : call[p].pc = "idle"

-----------------------------------------------------------------------------
(* The environment: the clock and the workspace's files *)

Tick ==
    /\ now < MaxTime
    /\ now' = now + 1
    /\ UNCHANGED <<disk, index, call, progress, watch>>

\* A file is created or rewritten with new content; its mtime is the clock.
WriteFile(f, v) ==
    /\ ~disk[f].exists \/ disk[f].ver # v
    /\ disk' = [disk EXCEPT ![f] = [exists |-> TRUE, mtime |-> now, ver |-> v]]
    /\ UNCHANGED <<now, index, call, progress, watch>>

\* touch -d: the mtime of an existing file is set to any time, past or future.
TouchFile(f, t) ==
    /\ disk[f].exists
    /\ disk[f].mtime # t
    /\ disk' = [disk EXCEPT ![f].mtime = t]
    /\ UNCHANGED <<now, index, call, progress, watch>>

DeleteFile(f) ==
    /\ disk[f].exists
    /\ disk' = [disk EXCEPT ![f] = [exists |-> FALSE, mtime |-> 0, ver |-> 1]]
    /\ UNCHANGED <<now, index, call, progress, watch>>

-----------------------------------------------------------------------------
(* Analyzer.chunk: Parser.Chunk, then Index.Index *)

\* The cache with the entry of f deleted (delete(idx.cache, filePath)).
\* (variant for the checks: the delete is left out)
CacheDeleteSkipped(ch, f) == ch

CacheDelete(ch, f) == [g \in DOMAIN ch \ {f} |-> ch[g]]

\* The cache with the entry of f set (idx.cache[file.Path] = chunkMetadata).
\* (variant for the checks: ParsedAt is not copied into the metadata)
CachePutUnstamped(ch, f, chunks) ==
    [g \in DOMAIN ch \cup {f} |->
        IF g = f
        THEN [i \in DOMAIN chunks |->
                [ChunkMetadata(chunks[i]) EXCEPT !.ParsedAt = 0]]
        ELSE ch[g]]

CachePut(ch, f, chunks) ==
    [g \in DOMAIN ch \cup {f} |->
        IF g = f THEN [i \in DOMAIN chunks |-> ChunkMetadata(chunks[i])]
        ELSE ch[g]]

\* The documents Index.Index builds from file.Chunks, in order.
Documents(f, chunks) == [i \in DOMAIN chunks |-> Document(f, chunks[i])]

\* A goroutine enters Analyzer.chunk(filePath).
BeginChunk(p, f) ==
    /\ call[p].pc = "idle"
    /\ call' = [call EXCEPT ![p] =
            [Idle EXCEPT !.pc = "parse", !.op = "chunk", !.file = f,
                         !.cache0 = cache, !.store0 = store]]
    /\ UNCHANGED <<env, index, progress, watch>>

\* Parser.Chunk up to Parser.parse: a file classified as ignore is refused,
\* os.ReadFile fails for a missing file; in both cases Analyzer.chunk returns
\* the error without calling the index.
Parse(p) ==
    LET c == call[p] IN
    /\ c.pc = "parse"
    /\ IF classifyFileType(c.file) = "ignore" \/ ~disk[c.file].exists
       THEN call' = [call EXCEPT ![p].pc = "done", ![p].err = TRUE,
                                 ![p].failed = @ \cup {c.file}]
       ELSE call' = [call EXCEPT
                ![p].src = disk[c.file].ver,
                ![p].pc = IF ChunkPaths(disk[c.file].ver) = <<>>
                          THEN "delete" ELSE "extract"]
    /\ UNCHANGED <<env, index, progress, watch>>

\* Parser.parse fails on a file that exists: os.ReadFile returns an error (the
\* file cannot be read) or the parser returns no tree.
ParseFailed(p) ==
    LET c == call[p] IN
    /\ c.pc = "parse"
    /\ classifyFileType(c.file) # "ignore"
    /\ disk[c.file].exists
    /\ call' = [call EXCEPT ![p].pc = "done", ![p].err = TRUE,
                            ![p].failed = @ \cup {c.file}]
    /\ UNCHANGED <<env, index, progress, watch>>

\* Parser.extractChunks, one chunk per step: newChunk stamps each chunk with
\* the clock at the moment it is built.
Extract(p) ==
    LET c == call[p]
        paths == ChunkPaths(c.src)
        chunks == Append(c.chunks,
                         newChunk(c.file, c.src, paths[Len(c.chunks) + 1], now))
    IN
    /\ c.pc = "extract"
    /\ call' = [call EXCEPT
            ![p].chunks = chunks,
            ![p].pc = IF Len(chunks) = Len(paths) THEN "delete" ELSE "extract"]
    /\ UNCHANGED <<env, index, progress, watch>>

\* A caller enters Index.Remove(filePath) directly.
BeginRemove(p, f) ==
    /\ call[p].pc = "idle"
    /\ call' = [call EXCEPT ![p] =
            [Idle EXCEPT !.pc = "delete", !.op = "Remove", !.file = f,
                         !.cache0 = cache, !.store0 = store]]
    /\ UNCHANGED <<env, index, progress, watch>>

\* Index.Remove, the store half: collection.Delete by file metadata.  When it
\* fails Remove (and Index) return the error.
Delete(p, ok) ==
    LET c == call[p] IN
    /\ c.pc = "delete"
    /\ IF ok
       THEN /\ store' = StoreDelete(store, c.file)
            /\ call' = [call EXCEPT ![p].pc = "uncache"]
       ELSE /\ store' = store
            /\ call' = [call EXCEPT ![p].pc = "done", ![p].err = TRUE]
    /\ UNCHANGED <<env, cache, progress, watch>>

\* Where a call goes once Remove has returned nil: Remove itself is done, and
\* Index is done when file.Chunks is empty.
AfterRemove(c) ==
    IF c.op = "Remove" \/ Len(c.chunks) = 0 THEN "done" ELSE "add"

\* Index.Remove, the cache half, under cacheMu.
Uncache(p) ==
    LET c == call[p] IN
    /\ c.pc = "uncache"
    /\ cache' = CacheDelete(cache, c.file)
    /\ call' = [call EXCEPT ![p].pc = AfterRemove(c)]
    /\ UNCHANGED <<env, store, progress, watch>>

\* Index.Index: collection.AddDocuments.  When it fails Index returns the error.
Add(p, ok) ==
    LET c == call[p]
        docs == Documents(c.file, c.chunks)
    IN
    /\ c.pc = "add"
    /\ IF ok
       THEN /\ store' \in AddDocuments(store, docs)
            /\ call' = [call EXCEPT ![p].pc = "cache"]
       ELSE /\ store' \in AddDocumentsFailed(store, docs)
            /\ call' = [call EXCEPT ![p].pc = "done", ![p].err = TRUE]
    /\ UNCHANGED <<env, cache, progress, watch>>

\* Index.Index: the cache entry is overwritten under cacheMu.
Cache(p) ==
    LET c == call[p] IN
    /\ c.pc = "cache"
    /\ cache' = CachePut(cache, c.file, c.chunks)
    /\ call' = [call EXCEPT ![p].pc = "done"]
    /\ UNCHANGED <<env, store, progress, watch>>

\* A caller asks Index.IsStale(filePath).
IsStaleCall(p, f) ==
    /\ call[p].pc = "idle"
    /\ call' = [call EXCEPT ![p] =
            [Idle EXCEPT !.pc = "done", !.op = "IsStale", !.file = f,
                         !.res = IsStale(disk, cache, f),
                         !.cache0 = cache, !.store0 = store]]
    /\ UNCHANGED <<env, index, progress, watch>>

\* The call returns to its caller.
Return(p) ==
    /\ call[p].pc = "done"
    /\ call[p].op \in {"chunk", "Remove", "IsStale", "search", "Search",
                     "FindSimilarChunks"}
    /\ call' = [call EXCEPT ![p] = Idle]
    /\ UNCHANGED <<env, index, progress, watch>>

-----------------------------------------------------------------------------
(* Analyzer.processFiles *)

Max(a, b) == IF a > b THEN a ELSE b

\* The sequences that list each element of S once (the orders in which Go may
\* iterate a map with the keys S).
Perms(S) == {s \in [1..Cardinality(S) -> S] : Range(s) = S}

\* processFiles entered with a non-empty slice, about to chunk its first file.
StartBatch(op, files, gone) ==
    [Idle EXCEPT !.pc = "parse", !.op = op, !.file = Head(files),
                 !.batch = files, !.given = files, !.gone = gone]

\* The files of fs that are missing from disk although the store has their
\* documents, noted when no call is in progress (read by the properties only).
Gone(fs) ==
    IF \E q \in Procs : call[q].pc # "idle" THEN {}
    ELSE {f \in fs : ~disk[f].exists /\ StoredFor(store, f) # {}}

\* A loop that ends the batch when a.chunk returned an error.
NextFileStopping(p) ==
    LET c == call[p]
        next == IF Len(c.batch) > 1 /\ ~c.err
                THEN [c EXCEPT !.pc = "parse", !.file = c.batch[2],
                               !.batch = Tail(c.batch), !.src = 0,
                               !.chunks = <<>>, !.err = FALSE]
                ELSE [c EXCEPT !.pc = "stamp", !.batch = <<>>]
    IN
    /\ c.pc = "done"
    /\ c.op \in BatchOps
    /\ nPendingFiles' = Max(nPendingFiles - 1, 0)
    /\ call' = [call EXCEPT ![p] = next]
    /\ UNCHANGED <<env, index, lastIndexedAt, watch>>

\* processFiles after a.chunk returned (its error is dropped): the counter is
\* decremented under indexMu and the loop goes on to the next file.  A search
\* request in progress notes the files the handler has processed (read by the
\* properties only).
NextFile(p) ==
    LET c == call[p]
        next == IF Len(c.batch) > 1
                THEN [c EXCEPT !.pc = "parse", !.file = c.batch[2],
                               !.batch = Tail(c.batch), !.src = 0,
                               !.chunks = <<>>, !.err = FALSE]
                ELSE [c EXCEPT !.pc = "stamp", !.batch = <<>>]
        noted == IF p = "watcher" /\ call["request"].op = "search"
                    /\ call["request"].pc # "done"
                 THEN call["request"].awaiting \ {c.file}
                 ELSE call["request"].awaiting
    IN
    /\ c.pc = "done"
    /\ c.op \in BatchOps
    /\ nPendingFiles' = Max(nPendingFiles - 1, 0)
    /\ call' = [call EXCEPT ![p] = next, !["request"].awaiting = noted]
    /\ UNCHANGED <<env, index, lastIndexedAt, watch>>

\* processFiles after its loop: lastIndexedAt = time.Now() under indexMu.
Stamp(p) ==
    /\ call[p].pc = "stamp"
    /\ lastIndexedAt' = now
    /\ call' = [call EXCEPT ![p].pc = "finished"]
    /\ UNCHANGED <<env, index, nPendingFiles, watch>>

-----------------------------------------------------------------------------
(* Watcher *)

\* A mutex that processPendingFiles would give up before it calls the handler.
MuFreeDuringHandler == TRUE

\* Watcher.mu is held by processPendingFiles from its first line until the
\* handler has returned; every other holder takes and releases it in one step.
MuFree == call["watcher"].pc = "idle"

\* A write or a removal that fsnotify reports, unless the watcher is closed.
WriteNotified(f, v) ==
    /\ ~disk[f].exists \/ disk[f].ver # v
    /\ disk' = [disk EXCEPT ![f] = [exists |-> TRUE, mtime |-> now, ver |-> v]]
    /\ events' = IF closed THEN events ELSE events \cup {f}
    /\ UNCHANGED <<now, index, call, progress, pendingFiles, debounceTimer,
                   fired, closed, loop>>

DeleteNotified(f) ==
    /\ disk[f].exists
    /\ disk' = [disk EXCEPT ![f] = [exists |-> FALSE, mtime |-> 0, ver |-> 1]]
    /\ events' = IF closed THEN events ELSE events \cup {f}
    /\ UNCHANGED <<now, index, call, progress, pendingFiles, debounceTimer,
                   fired, closed, loop>>

\* Watcher.watch: the select receives an event (not after ctx is cancelled and
\* the fsnotify watcher closed).
Receive(f) ==
    /\ ~closed
    /\ loop = NoFile
    /\ f \in events
    /\ events' = events \ {f}
    /\ loop' = f
    /\ UNCHANGED <<env, index, call, progress, pendingFiles, debounceTimer,
                   fired, closed>>

\* Watcher.handleEvent, under mu: the path joins the pending set, the old timer
\* is stopped and a new one armed.
handleEvent ==
    /\ loop # NoFile
    /\ MuFree
    /\ pendingFiles' = pendingFiles \cup {loop}
    /\ debounceTimer' = "armed"
    /\ loop' = NoFile
    /\ call' = [call EXCEPT !["watcher"].added =
            IF loop \in Range(@) THEN @ ELSE Append(@, loop)]
    /\ UNCHANGED <<env, index, progress, fired, closed, events>>

\* The timer expires, after the debounce interval when it is armed and at
\* once when it is due: its callback, processPendingFiles, starts in a
\* goroutine of its own, which first waits for mu.
TimerFire ==
    /\ debounceTimer \in {"armed", "due"}
    /\ fired < MaxFired
    /\ debounceTimer' = "fired"
    /\ fired' = fired + 1
    /\ UNCHANGED <<env, index, call, progress, pendingFiles, closed, events,
                   loop>>

\* A callback that calls the handler whatever the length of the snapshot;
\* processFiles returns at once when the slice is empty.
processPendingFilesAlways(changes) ==
    /\ fired > 0
    /\ MuFree
    /\ fired' = fired - 1
    /\ IF changes # <<>>
       THEN /\ nPendingFiles' = Len(changes)
            /\ call' = [call EXCEPT !["watcher"] =
                    StartBatch("handler", changes, Gone(Range(changes)))]
       ELSE /\ call' = [call EXCEPT !["watcher"] =
                    [Idle EXCEPT !.pc = "finished", !.op = "handler"]]
            /\ UNCHANGED nPendingFiles
    /\ UNCHANGED <<env, index, lastIndexedAt, pendingFiles, debounceTimer,
                   closed, events, loop>>

\* Watcher.processPendingFiles: takes mu, snapshots the pending set in map
\* order and, when it is not empty, calls the handler
\* (Analyzer.handleFileChange -> processFiles) with mu held.
processPendingFiles(changes) ==
    /\ fired > 0
    /\ MuFree
    /\ fired' = fired - 1
    /\ IF changes # <<>>
       THEN /\ nPendingFiles' = Len(changes)
            /\ call' = [call EXCEPT !["watcher"] =
                    StartBatch("handler", changes, Gone(Range(changes)))]
       ELSE UNCHANGED <<nPendingFiles, call>>
    /\ UNCHANGED <<env, index, lastIndexedAt, pendingFiles, debounceTimer,
                   closed, events, loop>>

\* A callback that releases mu without replacing the pending set.
CallbackEndKeeping ==
    /\ call["watcher"].pc = "finished"
    /\ call' = [call EXCEPT !["watcher"] = Idle]
    /\ UNCHANGED <<env, index, progress, pendingFiles, debounceTimer, fired,
                   closed, events, loop>>

\* processPendingFiles after the handler returned: the pending set is replaced
\* by an empty map and mu released.
CallbackEnd ==
    /\ call["watcher"].pc = "finished"
    /\ pendingFiles' = {}
    /\ call' = [call EXCEPT !["watcher"] = Idle]
    /\ UNCHANGED <<env, index, progress, debounceTimer, fired, closed, events,
                   loop>>

\* A Reset that leaves the timer's deadline as it was.
Reset0Kept(t) == t

\* timer.Reset(0) on the timer FlushPending finds: whatever its state, the
\* timer is due at once.
Reset0(t) == IF t = "nil" THEN "nil" ELSE "due"

\* timer.Stop() on the timer Close finds: only a timer that has not fired is
\* kept from firing.
Stop(t) == IF t \in {"armed", "due"} THEN "stopped" ELSE t

\* Watcher.Close: cancels ctx, stops the timer, closes the fsnotify watcher.
Close ==
    /\ ~closed
    /\ closed' = TRUE
    /\ debounceTimer' = Stop(debounceTimer)
    /\ events' = {}
    /\ UNCHANGED <<env, index, call, progress, pendingFiles, fired, loop>>

-----------------------------------------------------------------------------
(* Analyzer.IndexWorkspace, SemanticSearch *)

\* fs.WalkSourceFiles: the existing source files, in the walk's order.
WalkSourceFiles ==
    SelectSeq(<<"a.ts", "b.test.ts">>, LAMBDA f : disk[f].exists)

\* IndexWorkspace begins (at startup, or on an index_workspace request).
BeginIndexWorkspace(p) ==
    /\ call[p].pc = "idle"
    /\ call' = [call EXCEPT ![p] =
            [Idle EXCEPT !.pc = "flush", !.op = "reconcile",
                         !.gone = Gone(Files)]]
    /\ UNCHANGED <<env, index, progress, watch>>

\* SemanticSearch / FindSimilarChunks begins; awaiting is the pending set at
\* that moment (read by the properties only).
BeginSearch(p) ==
    /\ call[p].pc = "idle"
    /\ call' = [call EXCEPT ![p] =
            [Idle EXCEPT !.pc = "flush", !.op = "search",
                         !.awaiting = pendingFiles]]
    /\ UNCHANGED <<env, index, progress, watch>>

\* Analyzer.flushPendingChanges -> Watcher.FlushPending, under mu: the timer,
\* if there is one, is reset to fire at once; the call returns.
FlushPending(p) ==
    /\ call[p].pc = "flush"
    /\ MuFree
    /\ debounceTimer' = Reset0(debounceTimer)
    /\ call' = [call EXCEPT ![p].pc =
            IF call[p].op = "search" THEN "query" ELSE "walk"]
    /\ UNCHANGED <<env, index, progress, pendingFiles, fired, closed, events,
                   loop>>

\* IndexWorkspace: the walk collects the stale files, then processFiles.
Walk(p) ==
    LET filesToProcess ==
            SelectSeq(WalkSourceFiles, LAMBDA f : IsStale(disk, cache, f))
    IN
    /\ call[p].pc = "walk"
    /\ IF filesToProcess = <<>>
       THEN /\ call' = [call EXCEPT ![p].pc = "finished"]
            /\ UNCHANGED nPendingFiles
       ELSE /\ call' = [call EXCEPT ![p] =
                    StartBatch("reconcile", filesToProcess, call[p].gone)]
            /\ nPendingFiles' = Len(filesToProcess)
    /\ UNCHANGED <<env, index, lastIndexedAt, watch>>

\* IndexWorkspace returns.
EndIndexWorkspace(p) ==
    /\ call[p].pc = "finished"
    /\ call[p].op = "reconcile"
    /\ call' = [call EXCEPT ![p] = Idle]
    /\ UNCHANGED <<env, index, progress, watch>>

\* Index.Search / FindSimilarChunks: the query reads the store.
Query(p) ==
    /\ call[p].pc = "query"
    /\ call' = [call EXCEPT ![p].pc = "done"]
    /\ UNCHANGED <<env, index, progress, watch>>

-----------------------------------------------------------------------------
(* Analyzer.handleFileChange, GetChunkCode *)

\* The batches a watcher can deliver: the files of a non-empty set, in any order.
Batches(fs) == UNION {Perms(S) : S \in SUBSET fs \ {{}}}

\* Analyzer.handleFileChange(filePaths), as the watcher's callback calls it:
\* processFiles over the batch.
handleFileChange(changes) ==
    /\ call["watcher"].pc = "idle"
    /\ nPendingFiles' = Len(changes)
    /\ call' = [call EXCEPT !["watcher"] =
            StartBatch("handler", changes, Gone(Range(changes)))]
    /\ UNCHANGED <<env, index, lastIndexedAt, watch>>

\* fmt.Sprintf("== %s ==\n\n%s\n\n", id, ...): the block of one ID, with
\* either an error marker or the chunk's source under the heading.
Block(id, marker, source) == [ID |-> id, Error |-> marker, Source |-> source]

RECURSIVE GetChunkCode(_)
\* A loop that gives up at the first ID without "::".
GetChunkCodeAborting(c) ==
    IF c.ids = <<>> THEN [c EXCEPT !.pc = "replied"]
    ELSE LET id == Head(c.ids)
             parts == SplitN2(id)
         IN IF Len(parts) # 2
            THEN [c EXCEPT !.pc = "replied", !.ids = <<>>,
                           !.blocks = Append(@, Block(id, "<invalid chunk id>", 0))]
            ELSE [c EXCEPT !.pc = "parse", !.id = id, !.file = parts[1],
                           !.ids = Tail(@), !.src = 0, !.chunks = <<>>,
                           !.err = FALSE]

\* Analyzer.GetChunkCode, the loop over the IDs not answered yet, up to the
\* next call of Analyzer.chunk: getSingleChunkCode answers an ID without "::"
\* at once and has the file of any other ID re-chunked first.
GetChunkCode(c) ==
    IF c.ids = <<>> THEN [c EXCEPT !.pc = "replied"]
    ELSE LET id == Head(c.ids)
             parts == SplitN2(id)
         IN IF Len(parts) # 2
            THEN GetChunkCode([c EXCEPT !.ids = Tail(@),
                    !.blocks = Append(@, Block(id, "<invalid chunk id>", 0))])
            ELSE [c EXCEPT !.pc = "parse", !.id = id, !.file = parts[1],
                           !.ids = Tail(@), !.src = 0, !.chunks = <<>>,
                           !.err = FALSE]

\* A caller enters Analyzer.GetChunkCode(ids).
BeginGetChunkCode(p, ids) ==
    /\ call[p].pc = "idle"
    /\ call' = [call EXCEPT ![p] =
            GetChunkCode([Idle EXCEPT !.op = "getChunkCode", !.ids = ids,
                                      !.asked = ids])]
    /\ UNCHANGED <<env, index, progress, watch>>

\* getSingleChunkCode after a.chunk returned: the block holds the error
\* marker, or the source of the chunk that Index.GetChunk finds under the ID;
\* the loop goes on.
Lookup(p) ==
    LET c == call[p]
        found == {d \in store : d.ID = c.id}
        block == IF c.err THEN Block(c.id, "<processing error>", 0)
                 ELSE IF found = {}
                 THEN Block(c.id, "<source not found for chunk>", 0)
                 ELSE Block(c.id, "", GetChunk(CHOOSE d \in found : TRUE).Source)
    IN
    /\ c.pc = "done"
    /\ c.op = "getChunkCode"
    /\ call' = [call EXCEPT ![p] =
            GetChunkCode([c EXCEPT !.blocks = Append(@, block)])]
    /\ UNCHANGED <<env, index, progress, watch>>

\* GetChunkCode returns its text.
Reply(p) ==
    /\ call[p].pc = "replied"
    /\ call' = [call EXCEPT ![p] = Idle]
    /\ UNCHANGED <<env, index, progress, watch>>

\* The requests made: for a chunk of a.ts, and for an ID without "::".
RequestIDs == {<< <<"a.ts", "foo">> >>, << <<"a.ts">> >>}

-----------------------------------------------------------------------------
(* Spec: the watcher's handler, the reconciliation and a GetChunkCode request
   running concurrently over one watched file *)

Watched == {"a.ts"}

\* The contents written while the three run: two functions, or one of them.
Edits == {1, 2}

Next ==
    \/ \E f \in Watched : \E v \in Edits : WriteFile(f, v)
    \/ \E f \in Watched : DeleteFile(f)
    \/ \E changes \in Batches(Watched) : handleFileChange(changes)
    \/ CallbackEnd
    \/ BeginIndexWorkspace("reconcile")
    \/ EndIndexWorkspace("reconcile")
    \/ \E ids \in RequestIDs : BeginGetChunkCode("request", ids)
    \/ Lookup("request")
    \/ Reply("request")
    \/ \E p \in Procs :
        \/ FlushPending(p)
        \/ Walk(p)
        \/ Parse(p)
        \/ Extract(p)
        \/ Delete(p, TRUE)
        \/ Uncache(p)
        \/ Add(p, TRUE)
        \/ Cache(p)
        \/ NextFile(p)
        \/ Stamp(p)

Spec == Init /\ [][Next]_vars

-----------------------------------------------------------------------------
(* SpecWatch: the watcher with its handler, a search request and Close *)

NextWatch ==
    \/ \E f \in Watched : \E v \in ContentsOf(f) : WriteNotified(f, v)
    \/ \E f \in Watched : DeleteNotified(f)
    \/ \E f \in Watched : Receive(f)
    \/ handleEvent
    \/ TimerFire
    \/ \E changes \in Perms(pendingFiles) : processPendingFiles(changes)
    \/ CallbackEnd
    \/ Close
    \/ BeginSearch("request")
    \/ FlushPending("request")
    \/ Query("request")
    \/ Return("request")
    \/ Parse("watcher")
    \/ Extract("watcher")
    \/ Delete("watcher", TRUE)
    \/ Uncache("watcher")
    \/ Add("watcher", TRUE)
    \/ Cache("watcher")
    \/ NextFile("watcher")
    \/ Stamp("watcher")

SpecWatch == Init /\ [][NextWatch]_vars

-----------------------------------------------------------------------------
(* SpecClassify: Analyzer.chunk, one call at a time, over files of every
   file type *)

\* The files of the workspace: source, tests and docs by either table, files
\* under directories that are to be ignored, and files under directories that
\* only look like those.
ClassifyFiles == {"a.ts", "b.test.ts", "dist/c.ts", "docs/d.ts",
                  "coverage/e.ts", "tests/dist/f.ts", "lib/docs/g.ts"}

InitClassify ==
    /\ disk = [f \in ClassifyFiles |-> [exists |-> TRUE, mtime |-> 0, ver |-> 2]]
    /\ now = 0
    /\ store = {}
    /\ cache = <<>>
    /\ call = [p \in Procs |-> Idle]
    /\ nPendingFiles = 0
    /\ lastIndexedAt = ZeroTime
    /\ pendingFiles = {}
    /\ debounceTimer = "nil"
    /\ fired = 0
    /\ closed = FALSE
    /\ events = {}
    /\ loop = NoFile

NextClassify ==
    \/ AllIdle /\ \E f \in {"a.ts", "dist/c.ts"} : \E v \in Edits : WriteFile(f, v)
    \/ \E f \in ClassifyFiles : BeginChunk("request", f)
    \/ Parse("request")
    \/ Extract("request")
    \/ Delete("request", TRUE)
    \/ Uncache("request")
    \/ Add("request", TRUE)
    \/ Cache("request")
    \/ Return("request")

SpecClassify == InitClassify /\ [][NextClassify]_vars

-----------------------------------------------------------------------------
(* SpecGet: GetChunkCode requests for several IDs, one request at a time,
   over both files, with a store that may fail *)

MaxIDs == 2         \* IDs in one GetChunkCode request

\* The IDs asked for: chunks of both files, and an ID without "::".
AskedIDs == {<<"a.ts", "foo">>, <<"a.ts", "bar">>, <<"b.test.ts", "foo">>,
             <<"a.ts">>}

NextGet ==
    \/ AllIdle /\ \E f \in Files : \E v \in ContentsOf(f) : WriteFile(f, v)
    \/ AllIdle /\ \E f \in Files : DeleteFile(f)
    \/ \E n \in 1..MaxIDs : \E ids \in [1..n -> AskedIDs] :
            BeginGetChunkCode("request", ids)
    \/ Parse("request")
    \/ Extract("request")
    \/ \E ok \in BOOLEAN : Delete("request", ok)
    \/ Uncache("request")
    \/ \E ok \in BOOLEAN : Add("request", ok)
    \/ Cache("request")
    \/ Lookup("request")
    \/ Reply("request")

SpecGet == Init /\ [][NextGet]_vars

-----------------------------------------------------------------------------
(* Analyzer.GetIndexStatus *)

\* GetIndexStatus, first half: nPendingFiles and lastIndexedAt are read
\* together under indexMu.RLock.
GetIndexStatus(p) ==
    /\ call[p].pc = "idle"
    /\ call' = [call EXCEPT ![p] =
            [Idle EXCEPT !.pc = "count", !.op = "getIndexStatus",
                         !.pending = nPendingFiles, !.last = lastIndexedAt]]
    /\ UNCHANGED <<env, index, progress, watch>>

\* GetIndexStatus, second half: Watcher.PendingCount takes mu and adds the
\* size of the pending set.
PendingCount(p) ==
    /\ call[p].pc = "count"
    /\ MuFree
    /\ call' = [call EXCEPT ![p].pc = "replied",
                            ![p].pending = @ + Cardinality(pendingFiles)]
    /\ UNCHANGED <<env, index, progress, watch>>

\* SpecStatus: the watcher with its handler, the reconciliation and a status
\* request running concurrently over one watched file.
NextStatus ==
    \/ \E f \in Watched : \E v \in Edits : WriteNotified(f, v)
    \/ \E f \in Watched : Receive(f)
    \/ handleEvent
    \/ TimerFire
    \/ \E changes \in Perms(pendingFiles) : processPendingFiles(changes)
    \/ CallbackEnd
    \/ BeginIndexWorkspace("reconcile")
    \/ FlushPending("reconcile")
    \/ Walk("reconcile")
    \/ EndIndexWorkspace("reconcile")
    \/ GetIndexStatus("request")
    \/ PendingCount("request")
    \/ Reply("request")
    \/ \E p \in {"watcher", "reconcile"} :
        \/ Parse(p)
        \/ Extract(p)
        \/ Delete(p, TRUE)
        \/ Uncache(p)
        \/ Add(p, TRUE)
        \/ Cache(p)
        \/ NextFile(p)
        \/ Stamp(p)

SpecStatus == Init /\ [][NextStatus]_vars

-----------------------------------------------------------------------------
(* SpecBatch: the watcher over two files, with its handler and a search
   request that flushes *)

NextBatch ==
    \/ \E f \in Files : \E v \in ContentsOf(f) \cap Edits : WriteNotified(f, v)
    \/ \E f \in Files : Receive(f)
    \/ handleEvent
    \/ TimerFire
    \/ \E changes \in Perms(pendingFiles) : processPendingFiles(changes)
    \/ CallbackEnd
    \/ BeginSearch("request")
    \/ FlushPending("request")
    \/ Query("request")
    \/ Return("request")
    \/ Parse("watcher")
    \/ Extract("watcher")
    \/ Delete("watcher", TRUE)
    \/ Uncache("watcher")
    \/ Add("watcher", TRUE)
    \/ Cache("watcher")
    \/ NextFile("watcher")
    \/ Stamp("watcher")

SpecBatch == Init /\ [][NextBatch]_vars

-----------------------------------------------------------------------------
(* SpecSkip: batches over both files, one at a time, in which reading or
   parsing a file may fail *)

NextSkip ==
    \/ Tick
    \/ AllIdle /\ \E f \in Files : \E v \in ContentsOf(f) \cap Edits : WriteFile(f, v)
    \/ AllIdle /\ \E f \in Files : DeleteFile(f)
    \/ \E changes \in Batches(Files) : handleFileChange(changes)
    \/ CallbackEnd
    \/ Parse("watcher")
    \/ ParseFailed("watcher")
    \/ Extract("watcher")
    \/ Delete("watcher", TRUE)
    \/ Uncache("watcher")
    \/ Add("watcher", TRUE)
    \/ Cache("watcher")
    \/ NextFile("watcher")
    \/ Stamp("watcher")

SpecSkip == Init /\ [][NextSkip]_vars

-----------------------------------------------------------------------------
(* Index.New: the persisted collection and loadCache *)

\* The documents a previous run of Index.Index can have left under an ID.
Persisted(f, p) ==
    {Document(f, newChunk(f, v, p, t)) :
        v \in {w \in ContentsOf(f) : p \in Range(ChunkPaths(w))}, t \in Times}

\* The (file, path) pairs a previous run can have stored chunks of.
PersistedChunks ==
    {<<f, p>> : f \in Files,
                p \in UNION {Range(ChunkPaths(v)) : v \in Versions}}

\* The collections chromem.NewPersistentDB can open: at most one document per
\* ID, over the chunks in keys.
RECURSIVE Collections(_)
Collections(keys) ==
    IF keys = {} THEN {{}}
    ELSE LET i == CHOOSE x \in keys : TRUE IN
         {st \cup d : st \in Collections(keys \ {i}),
                      d \in {{}} \cup {{x} : x \in Persisted(i[1], i[2])}}

\* The process starts: an empty cache, a collection from an earlier run, and
\* whatever files the workspace has now.
InitLoad ==
    /\ disk \in [Files -> {[exists |-> e, mtime |-> 0, ver |-> 1] :
                              e \in BOOLEAN}]
    /\ now = 0
    /\ store \in Collections(PersistedChunks)
    /\ cache = <<>>
    /\ call = [p \in Procs |-> Idle]
    /\ nPendingFiles = 0
    /\ lastIndexedAt = ZeroTime
    /\ pendingFiles = {}
    /\ debounceTimer = "nil"
    /\ fired = 0
    /\ closed = FALSE
    /\ events = {}
    /\ loop = NoFile

\* fileChunks[filePath] = append(fileChunks[filePath], &ChunkMetadata{...})
\* (variant for the checks: the record replaces the list)
RecordedAlone(fc, f, c) ==
    [g \in DOMAIN fc \cup {f} |->
        IF g = f THEN <<ChunkMetadata(c)>> ELSE fc[g]]

Recorded(fc, f, c) ==
    [g \in DOMAIN fc \cup {f} |->
        IF g # f THEN fc[g]
        ELSE IF f \in DOMAIN fc THEN Append(fc[f], ChunkMetadata(c))
        ELSE <<ChunkMetadata(c)>>]

\* Index.loadCache takes cacheMu and lists the collection's IDs.
loadCache(p) ==
    /\ call[p].pc = "idle"
    /\ call' = [call EXCEPT ![p] =
            [Idle EXCEPT !.pc = "load", !.op = "loadCache",
                         !.todo = {d.ID : d \in store}, !.store0 = store]]
    /\ UNCHANGED <<env, index, progress, watch>>

\* One round of loadCache's loop, the IDs coming in the order ListIDs gives
\* them: an ID without "::" is skipped, the documents of a file that os.Stat
\* does not find are deleted, any other chunk is fetched and recorded.
LoadID(p, id) ==
    LET c == call[p]
        parts == SplitN2(id)
        filePath == parts[1]
        found == {d \in store : d.ID = id}
        rest == [c EXCEPT !.todo = c.todo \ {id}]
    IN
    /\ c.pc = "load"
    /\ id \in c.todo
    /\ IF Len(parts) # 2
       THEN /\ call' = [call EXCEPT ![p] = rest]
            /\ store' = store
       ELSE IF ~disk[filePath].exists
       THEN /\ call' = [call EXCEPT ![p] = rest]
            /\ store' = StoreDelete(store, filePath)
       ELSE IF found = {}
       THEN /\ call' = [call EXCEPT ![p] = rest]
            /\ store' = store
       ELSE /\ call' = [call EXCEPT ![p] =
                    [rest EXCEPT !.fileChunks =
                        Recorded(c.fileChunks, filePath,
                                 GetChunk(CHOOSE d \in found : TRUE))]]
            /\ store' = store
    /\ UNCHANGED <<env, cache, progress, watch>>

\* loadCache after its loop: idx.cache = fileChunks, and cacheMu is released.
Loaded(p) ==
    /\ call[p].pc = "load"
    /\ call[p].todo = {}
    /\ cache' = call[p].fileChunks
    /\ call' = [call EXCEPT ![p].pc = "loaded"]
    /\ UNCHANGED <<env, store, progress, watch>>

NextLoad ==
    \/ loadCache("reconcile")
    \/ \E id \in call["reconcile"].todo : LoadID("reconcile", id)
    \/ Loaded("reconcile")

SpecLoad == InitLoad /\ [][NextLoad]_vars

-----------------------------------------------------------------------------
(* Parser: resolvePath, summarize, extractChunks *)

chunkSummaryMaxChars == 80

\* The most children a node of the drawn syntax trees has.
MaxNodes == 3

\* A string of n copies of the character ch.
Rep(ch, n) == [i \in 1..n |-> ch]

\* fmt.Sprintf("%s-%d", path, counter), the digits as characters.
DigitChars == <<"0", "1", "2", "3", "4", "5", "6", "7", "8", "9">>

Sprintf(path, counter) ==
    path \o <<"-">> \o
        [i \in DOMAIN FormatInt(counter) |-> DigitChars[FormatInt(counter)[i] + 1]]

\* resolvePath's loop: the first counter from c on whose suffixed path is free.
RECURSIVE FreeCounter(_, _, _)
FreeCounter(path, usedPaths, c) ==
    IF Sprintf(path, c) \in usedPaths
    THEN FreeCounter(path, usedPaths, c + 1) ELSE c

\* resolvePath: the final path, and usedPaths with it marked.
\* (variant for the checks: the counter starts at 1)
resolvePathFromOne(path, usedPaths) ==
    IF path \notin usedPaths
    THEN [path |-> path, used |-> usedPaths \cup {path}]
    ELSE LET finalPath == Sprintf(path, FreeCounter(path, usedPaths, 1)) IN
         [path |-> finalPath, used |-> usedPaths \cup {finalPath}]

resolvePath(path, usedPaths) ==
    IF path \notin usedPaths
    THEN [path |-> path, used |-> usedPaths \cup {path}]
    ELSE LET finalPath == Sprintf(path, FreeCounter(path, usedPaths, 2)) IN
         [path |-> finalPath, used |-> usedPaths \cup {finalPath}]

\* strings.TrimSpace.
IsSpace(ch) == ch \in {" ", "\n", "\t", "\r"}

RECURSIVE TrimLeft(_)
TrimLeft(s) ==
    IF s # <<>> /\ IsSpace(Head(s)) THEN TrimLeft(Tail(s)) ELSE s

RECURSIVE TrimRight(_)
TrimRight(s) ==
    IF s # <<>> /\ IsSpace(s[Len(s)])
    THEN TrimRight(SubSeq(s, 1, Len(s) - 1)) ELSE s

TrimSpace(s) == TrimRight(TrimLeft(s))

\* strings.Index(s, ch): the 0-based position of the first ch, or -1.
IndexOf(s, ch) ==
    IF \E i \in DOMAIN s : s[i] = ch
    THEN (CHOOSE i \in DOMAIN s : s[i] = ch /\ \A j \in 1..(i - 1) : s[j] # ch) - 1
    ELSE 0 - 1

\* strings.Split(s, "\n")[0].
FirstLine(s) ==
    IF IndexOf(s, "\n") < 0 THEN s ELSE SubSeq(s, 1, IndexOf(s, "\n"))

\* summarize: the trimmed first line, cut at the first space at or after
\* chunkSummaryMaxChars (or at chunkSummaryMaxChars) and followed by "...".
summarize(source) ==
    LET firstLine == TrimSpace(FirstLine(TrimSpace(source)))
        nextSpace == IndexOf(SubSeq(firstLine, chunkSummaryMaxChars + 1,
                                    Len(firstLine)), " ")
    IN
    IF Len(firstLine) <= chunkSummaryMaxChars THEN firstLine
    ELSE IF nextSpace >= 0
    THEN SubSeq(firstLine, 1, chunkSummaryMaxChars + nextSpace) \o <<".", ".", ".">>
    ELSE SubSeq(firstLine, 1, chunkSummaryMaxChars) \o <<".", ".", ".">>

\* The LanguageSpec the extraction runs with: TypeScriptSpec's skip and fold
\* kinds and three of its named kinds, and a kind whose children are
\* extracted recursively.
SkipTypes == {"import_statement"}

FoldIntoNextNode == {"comment"}

NamedChunks == {"function_declaration", "class_declaration",
                "lexical_declaration", "internal_module"}

\* The namedChunks entries whose name query tree_sitter.NewQuery rejects. The
\* TypeScript spec has none; the entry for internal_module stands for one
\* that a language spec may carry.
InvalidQuery == {"internal_module"}

ExtractChildrenIn == {"class_declaration"}

\* A syntax node: its kind, the names its name query captures, its text and
\* its children.
Node(kind, names, text, children) ==
    [kind |-> kind, names |-> names, text |-> text, children |-> children]

\* node.Child(i): the node with its position in the tree, a path of child
\* indexes from the root.
Child(node, i) ==
    [pos |-> node.pos \o <<i>>, kind |-> node.children[i].kind,
     names |-> node.children[i].names, text |-> node.children[i].text,
     children |-> node.children[i].children]

\* tree.RootNode().
RootNode(tree) ==
    [pos |-> <<>>, kind |-> "program", names |-> <<>>, text |-> <<>>,
     children |-> tree]

\* fmt.Sprintf("%x", xxhash.Sum64String(nodeSource)): a digest that differs
\* whenever the text differs.
Hash(nodeSource) == <<"#">> \o nodeSource

\* calculateChunkBounds: from the start of the first folded node, if any, to
\* the end of the node.
\* (variant for the checks: the folded nodes are left out of the span)
calculateChunkBoundsOfNode(node, folded) ==
    [start |-> node.pos, end |-> node.pos]

calculateChunkBounds(node, folded) ==
    [start |-> IF Len(folded) > 0 THEN folded[1].pos ELSE node.pos,
     end |-> node.pos]

\* Parser.newChunk with the tree in hand: the path is resolved against
\* usedPaths, the summary is taken from the node, the source spans the folded
\* nodes and the node.
newChunkFrom(node, path, usedPaths, fileType, folded) ==
    LET final == resolvePath(path, usedPaths)
        bounds == calculateChunkBounds(node, folded)
    IN
    [chunk |-> [File |-> "", Type |-> fileType, Path |-> final.path,
                Summary |-> summarize(node.text),
                Source |-> [i \in DOMAIN folded |-> folded[i].text]
                               \o <<node.text>>,
                Start |-> bounds.start, End |-> bounds.end,
                ParsedAt |-> now],
     used |-> final.used]

\* Parser.extractNode: the chunk is named by the hash of the node's text.
extractNode(node, usedPaths, fileType, folded) ==
    newChunkFrom(node, Hash(node.text), usedPaths, fileType, folded)

\* Parser.executeQuery with the kind's name query: the captured nodes, or
\* the error of a query that does not compile.
executeQuery(node) ==
    IF node.kind \in InvalidQuery THEN [err |-> TRUE, nodes |-> <<>>]
    ELSE [err |-> FALSE, nodes |-> node.names]

\* A lookup that takes the first capture when there are several.
getNamedNodePathFirstMatch(node) ==
    LET found == executeQuery(node) IN
    IF found.err \/ Len(found.nodes) = 0 THEN [err |-> TRUE, path |-> <<>>]
    ELSE [err |-> FALSE, path |-> <<found.nodes[1]>>]

\* Parser.getNamedNodePath: the captured name when the query has exactly one
\* match, an error when the query fails or has no or several matches.
getNamedNodePath(node) ==
    LET found == executeQuery(node) IN
    IF found.err THEN [err |-> TRUE, path |-> <<>>]
    ELSE IF Len(found.nodes) = 1
    THEN [err |-> FALSE, path |-> <<found.nodes[1]>>]
    ELSE [err |-> TRUE, path |-> <<>>]

\* Parser.buildChunkPath (no parent-name query): parentPath + "::" + name.
buildChunkPath(node, parentPath) ==
    LET name == getNamedNodePath(node) IN
    IF name.err THEN name
    ELSE IF parentPath # <<>>
    THEN [err |-> FALSE, path |-> parentPath \o <<"::">> \o name.path]
    ELSE name

\* Parser.createChunkFromNode: the chunk, usedPaths, and the path handed to
\* the extraction of the node's children.
createChunkFromNode(node, parentPath, fileType, usedPaths, folded) ==
    LET built == buildChunkPath(node, parentPath)
        named == newChunkFrom(node, built.path, usedPaths, fileType, folded)
        hashed == extractNode(node, usedPaths, fileType, folded)
    IN
    IF node.kind \in NamedChunks /\ ~built.err
    THEN [chunk |-> named.chunk, used |-> named.used, path |-> built.path]
    ELSE [chunk |-> hashed.chunk, used |-> hashed.used, path |-> parentPath]

\* The loops over the fold buffer: every folded node becomes a chunk of its
\* own, named by its hash.
RECURSIVE Standalone(_, _, _)
Standalone(folded, usedPaths, fileType) ==
    IF folded = <<>> THEN [chunks |-> <<>>, used |-> usedPaths]
    ELSE LET first == extractNode(Head(folded), usedPaths, fileType, <<>>)
             rest == Standalone(Tail(folded), first.used, fileType)
         IN [chunks |-> <<first.chunk>> \o rest.chunks, used |-> rest.used]

\* Parser.extractChunks: the loop over the children from child i on, with the
\* chunks, usedPaths and the fold buffer built so far.
RECURSIVE extractFrom(_, _, _, _, _, _, _)
extractFrom(node, i, parentPath, fileType, chunks, usedPaths, folded) ==
    IF i > Len(node.children)
    THEN chunks \o Standalone(folded, usedPaths, fileType).chunks
    ELSE LET child == Child(node, i)
             alone == Standalone(folded, usedPaths, fileType)
             made == createChunkFromNode(child, parentPath, fileType,
                                         usedPaths, folded)
             childChunks ==
                 IF child.kind \in ExtractChildrenIn
                 THEN extractFrom(child, 1, made.path, fileType, <<>>, {}, <<>>)
                 ELSE <<>>
         IN
         IF child.kind \in SkipTypes
         THEN extractFrom(node, i + 1, parentPath, fileType,
                          chunks \o alone.chunks, alone.used, <<>>)
         ELSE IF child.kind \in FoldIntoNextNode
         THEN extractFrom(node, i + 1, parentPath, fileType,
                          chunks, usedPaths, Append(folded, child))
         ELSE extractFrom(node, i + 1, parentPath, fileType,
                          chunks \o <<made.chunk>> \o childChunks,
                          made.used, <<>>)

extractChunks(node, parentPath, fileType) ==
    extractFrom(node, 1, parentPath, fileType, <<>>, {}, <<>>)

\* The texts of the expression statements: short, 81 characters without a
\* space, a space before and one after column 80, and exactly 80 characters
\* between blanks on the first of two lines.
ExprTexts ==
    {<<"e">>,
     Rep("a", chunkSummaryMaxChars + 1),
     Rep("a", chunkSummaryMaxChars - 2) \o <<" ">> \o Rep("a", 5),
     Rep("a", chunkSummaryMaxChars + 5) \o <<" ", "a">>,
     <<" ">> \o Rep("a", chunkSummaryMaxChars) \o <<" ", "\n", "b">>}

\* The nodes below a class, the class bodies, and the nodes at the top level.
CommentNode == Node("comment", <<>>, <<"/", "c">>, <<>>)

HelperNode == Node("function_declaration", <<"helper">>, <<"f", " ", "h">>, <<>>)

ClassBodies ==
    {<<>>, <<HelperNode>>, <<HelperNode, HelperNode>>,
     <<CommentNode, HelperNode>>, <<HelperNode, CommentNode>>}

Seqs(S, n) == UNION {[1..k -> S] : k \in 0..n}

TopNodes ==
    {CommentNode, HelperNode,
     Node("import_statement", <<>>, <<"i">>, <<>>),
     Node("lexical_declaration", <<"x", "y">>, <<"l">>, <<>>),
     Node("function_declaration", <<>>, <<"f">>, <<>>),
     Node("internal_module", <<"E">>, <<"e">>, <<>>)}
    \cup {Node("class_declaration", <<"Foo">>, <<"c">>, ms) : ms \in ClassBodies}

\* The syntax trees drawn, as the children of the root: up to MaxNodes of the
\* nodes above, or one expression statement.
Trees ==
    Seqs(TopNodes, MaxNodes)
    \cup {<<Node("expression_statement", <<>>, t, <<>>)>> : t \in ExprTexts}

\* Parser.Chunk(filePath) on a file whose content parses to tree: the chunks
\* of the root's children, each given the file's path.
Chunk(p, f, tree) ==
    LET chunks == extractChunks(RootNode(tree), <<>>, classifyFileType(f)) IN
    /\ call[p].pc = "idle"
    /\ call' = [call EXCEPT ![p] =
            [Idle EXCEPT !.pc = "chunked", !.op = "Chunk", !.file = f,
                         !.src = tree,
                         !.chunks = [i \in DOMAIN chunks |->
                                        [chunks[i] EXCEPT !.File = f]]]]
    /\ UNCHANGED <<env, index, progress, watch>>

\* The caller takes the File.
Chunked(p) ==
    /\ call[p].pc = "chunked"
    /\ call' = [call EXCEPT ![p] = Idle]
    /\ UNCHANGED <<env, index, progress, watch>>

NextParse ==
    \/ /\ AllIdle
       /\ \E f \in Watched : \E tree \in Trees : Chunk("request", f, tree)
    \/ Chunked("request")

SpecParse == Init /\ [][NextParse]_vars

-----------------------------------------------------------------------------
(* SpecReindex: Analyzer.chunk on a file whose syntax tree is given, twice in
   a row *)

\* The chunks Parser.Chunk returns for file f with the given tree.
FileChunks(f, tree) ==
    LET chunks == extractChunks(RootNode(tree), <<>>, classifyFileType(f)) IN
    [i \in DOMAIN chunks |-> [chunks[i] EXCEPT !.File = f]]

\* Analyzer.chunk(f) up to the call of Index.Index, for a file that parses to
\* the tree.
Reindex(p, f, tree) ==
    /\ call[p].pc = "idle"
    /\ call' = [call EXCEPT ![p] =
            [Idle EXCEPT !.pc = "delete", !.op = "chunk", !.file = f,
                         !.src = tree, !.chunks = FileChunks(f, tree),
                         !.pass = 1]]
    /\ UNCHANGED <<env, index, progress, watch>>

\* Analyzer.chunk(f) once more after it returned nil, the file unchanged;
\* store0 and cache0 are what the first pass left.
Again(p) ==
    LET c == call[p] IN
    /\ c.pc = "done"
    /\ c.op = "chunk"
    /\ c.pass = 1
    /\ ~c.err
    /\ call' = [call EXCEPT ![p] =
            [c EXCEPT !.pc = "delete", !.chunks = FileChunks(c.file, c.src),
                      !.pass = 2, !.store0 = store, !.cache0 = cache]]
    /\ UNCHANGED <<env, index, progress, watch>>

\* The trees indexed twice: up to two top-level nodes.
ReindexTrees == {tree \in Trees : Len(tree) <= 2}

NextReindex ==
    \/ Tick
    \/ /\ AllIdle
       /\ \E f \in Watched : \E tree \in ReindexTrees : Reindex("request", f, tree)
    \/ Again("request")
    \/ Delete("request", TRUE)
    \/ Uncache("request")
    \/ Add("request", TRUE)
    \/ Cache("request")
    \/ Return("request")

SpecReindex == Init /\ [][NextReindex]_vars

-----------------------------------------------------------------------------
(* Index.Search, Index.FindSimilarChunks, formatSearchResults *)

\* Similarities are counted in thousandths: minSimilarity is 0.3.
minSimilarity == 300

maxResults == 30

\* The most documents a searched collection holds.
MaxDocs == 31

\* A collection of n chunks, alternately of a.ts and b.test.ts, all from
\* functions named foo: foo, foo-2, foo-3, ... in each file.
LibraryPath(k) ==
    IF k <= 2 THEN <<"foo">> ELSE Sprintf(<<"foo">>, (k + 1) \div 2)

LibraryDoc(k) ==
    LET f == IF k % 2 = 1 THEN "a.ts" ELSE "b.test.ts" IN
    Document(f, newChunk(f, 1, LibraryPath(k), 0))

Library(n) == {LibraryDoc(k) : k \in 1..n}

\* What the vector engine can answer: how similar the k-th document is.
\* Falling and rising similarities, a tie between the first two, and values
\* around the two thresholds.
Profiles ==
    {[k \in 1..MaxDocs |-> 900 - 10 * k],
     [k \in 1..MaxDocs |-> 280 + 10 * k],
     [k \in 1..MaxDocs |-> IF k <= 2 THEN 900 ELSE 900 - 10 * k],
     [k \in 1..MaxDocs |-> 620 - 10 * k]}

\* collection.Query / QueryEmbedding: at most nResults candidates, the most
\* similar ones, in the order of the collection.
Candidates(st, sim, nResults) ==
    LET ks == {k \in 1..MaxDocs : LibraryDoc(k) \in st}
        top == {k \in ks :
                  Cardinality({j \in ks : sim[j] > sim[k]
                                  \/ (sim[j] = sim[k] /\ j < k)}) < nResults}
        RECURSIVE InOrder(_)
        InOrder(S) ==
            IF S = {} THEN <<>>
            ELSE LET k == CHOOSE x \in S : \A y \in S : x <= y IN
                 <<[ID |-> LibraryDoc(k).ID, Similarity |-> sim[k]]>>
                     \o InOrder(S \ {k})
    IN InOrder(top)

\* sort.Slice(results, by Similarity descending): every order the unstable
\* sort can leave, candidates of equal similarity in any order.
RECURSIVE SortSlice(_, _)
\* (variant for the checks: the candidates stay in the engine's order)
Unsorted(results, S) == {results}

SortSlice(results, S) ==
    IF S = {} THEN {<<>>}
    ELSE LET G == {i \in S : \A j \in S :
                      results[j].Similarity <= results[i].Similarity}
         IN {[k \in 1..Cardinality(G) |-> results[g[k]]] \o rest :
                g \in Perms(G), rest \in SortSlice(results, S \ G)}

\* formatSearchResults after the sort: the walk over the candidates from
\* candidate i on.  typeFilter is nil when filter.nil holds.
RECURSIVE formatFrom(_, _, _, _, _, _, _, _)
formatFrom(st, results, i, paths, minSim, maxCount, skipID, filter) ==
    IF i > Len(results) THEN paths
    ELSE LET result == results[i]
             found == {d \in st : d.ID = result.ID}
             chunk == GetChunk(CHOOSE d \in found : TRUE)
         IN
         IF result.ID = skipID
         THEN formatFrom(st, results, i + 1, paths, minSim, maxCount,
                         skipID, filter)
         ELSE IF result.Similarity < minSim \/ Len(paths) >= maxCount
         THEN paths
         ELSE IF found = {}
         THEN formatFrom(st, results, i + 1, paths, minSim, maxCount,
                         skipID, filter)
         ELSE IF ~filter.nil /\ chunk.Type \notin filter.types
         THEN formatFrom(st, results, i + 1, paths, minSim, maxCount,
                         skipID, filter)
         ELSE formatFrom(st, results, i + 1,
                         Append(paths, [ID |-> result.ID, Type |-> chunk.Type,
                                        Source |-> chunk.Source]),
                         minSim, maxCount, skipID, filter)

\* The file_types lists of the requests.
FileTypeLists ==
    {<<>>, <<"src">>, <<"tests">>, <<"src", "tests">>, <<"docs">>}

\* Index.Search(query, fileTypes): an empty list means src and docs; the
\* engine is asked for len(fileTypes) * maxResults candidates.
Search(p, fileTypes, sim) ==
    LET types == IF Len(fileTypes) = 0 THEN <<"src", "docs">> ELSE fileTypes
        results == Candidates(store, sim, Len(types) * maxResults)
    IN
    /\ call[p].pc = "idle"
    /\ \E sorted \in SortSlice(results, DOMAIN results) :
        call' = [call EXCEPT ![p] =
            [Idle EXCEPT !.pc = "done", !.op = "Search",
                         !.results = results, !.minSim = minSimilarity,
                         !.maxCount = maxResults, !.types = Range(types),
                         !.res = formatFrom(store, sorted, 1, <<>>,
                                     minSimilarity, maxResults, <<>>,
                                     [nil |-> FALSE, types |-> Range(types)])]]
    /\ UNCHANGED <<env, index, progress, watch>>

\* Index.FindSimilarChunks(chunkID): an unknown ID is an error; otherwise the
\* ten nearest candidates, the chunk itself left out, at twice the threshold.
FindSimilarChunks(p, chunkID, sim) ==
    LET results == Candidates(store, sim, 10) IN
    /\ call[p].pc = "idle"
    /\ IF \A d \in store : d.ID # chunkID
       THEN call' = [call EXCEPT ![p] =
                [Idle EXCEPT !.pc = "done", !.op = "FindSimilarChunks",
                             !.id = chunkID, !.err = TRUE, !.res = <<>>]]
       ELSE \E sorted \in SortSlice(results, DOMAIN results) :
            call' = [call EXCEPT ![p] =
                [Idle EXCEPT !.pc = "done", !.op = "FindSimilarChunks",
                             !.id = chunkID, !.results = results,
                             !.minSim = 2 * minSimilarity, !.maxCount = 10,
                             !.types = {"src", "tests", "docs"},
                             !.res = formatFrom(store, sorted, 1, <<>>,
                                         2 * minSimilarity, 10, chunkID,
                                         [nil |-> TRUE, types |-> {}])]]
    /\ UNCHANGED <<env, index, progress, watch>>

\* The process serves searches over a collection built earlier.
InitSearch ==
    /\ disk = [f \in Files |-> [exists |-> TRUE, mtime |-> 0, ver |-> 1]]
    /\ now = 0
    /\ store \in {Library(n) : n \in {0, 1, 2, 3, 11, MaxDocs}}
    /\ cache = <<>>
    /\ call = [p \in Procs |-> Idle]
    /\ nPendingFiles = 0
    /\ lastIndexedAt = ZeroTime
    /\ pendingFiles = {}
    /\ debounceTimer = "nil"
    /\ fired = 0
    /\ closed = FALSE
    /\ events = {}
    /\ loop = NoFile

NextSearch ==
    \/ /\ AllIdle
       /\ \E fileTypes \in FileTypeLists : \E sim \in Profiles :
            Search("request", fileTypes, sim)
    \/ /\ AllIdle
       /\ \E k \in {1, 2, 3} : \E sim \in Profiles :
            FindSimilarChunks("request", LibraryDoc(k).ID, sim)
    \/ Return("request")

SpecSearch == InitSearch /\ [][NextSearch]_vars

-----------------------------------------------------------------------------
(* SpecSeq: one call at a time; the files change between calls *)


NextSeq ==
    \/ Tick
    \/ \E f \in Files : \E v \in ContentsOf(f) : AllIdle /\ WriteFile(f, v)
    \/ \E f \in Files, t \in Times : AllIdle /\ TouchFile(f, t)
    \/ \E f \in Files : AllIdle /\ DeleteFile(f)
    \/ \E f \in Files : AllIdle /\ BeginChunk("request", f)
    \/ \E f \in Files : AllIdle /\ BeginRemove("request", f)
    \/ \E f \in Files : AllIdle /\ IsStaleCall("request", f)
    \/ Parse("request")
    \/ Extract("request")
    \/ \E ok \in BOOLEAN : Delete("request", ok)
    \/ Uncache("request")
    \/ \E ok \in BOOLEAN : Add("request", ok)
    \/ Cache("request")
    \/ Return("request")

SpecSeq == Init /\ [][NextSeq]_vars

-----------------------------------------------------------------------------
(* Properties of the index under SpecSeq *)

\* The cache entry of f as a set: empty when f has no entry.
Entry(ch, f) == IF f \in DOMAIN ch THEN {ch[f]} ELSE {}

\* p's call of one of ops has returned (it holds its results until Return).
Returned(p, ops) == call[p].pc = "done" /\ call[p].op \in ops

\* C1: right after Index(f) returns nil, the documents stored with file = f
\* are exactly the documents of the chunks passed to that call: no document
\* of an earlier version of f is left, whatever its path.
C1_ReplacementAtomicity ==
    \A p \in Procs :
        Returned(p, {"chunk"}) /\ ~call[p].err =>
            StoredFor(store, call[p].file)
                = Range(Documents(call[p].file, call[p].chunks))

\* An Index call has returned nil after replacing a version that had a chunk
\* path the new version does not have.
C1_Witness ==
    \E p \in Procs :
        /\ Returned(p, {"chunk"}) /\ ~call[p].err
        /\ call[p].chunks # <<>>
        /\ call[p].file \in DOMAIN call[p].cache0
        /\ \E m \in Range(call[p].cache0[call[p].file]) :
               \A c \in Range(call[p].chunks) : c.Path # m.Path

\* C3: when Index(f) or Remove(f) returns an error, the cache entry of f is
\* what it was before the call.
C3_CacheUntouchedOnError ==
    \A p \in Procs :
        Returned(p, {"chunk", "Remove"}) /\ call[p].err =>
            Entry(cache, call[p].file) = Entry(call[p].cache0, call[p].file)

\* What C7 says IsStale(f) returns.
ClaimedStale(f) ==
    \/ ~disk[f].exists
    \/ f \notin DOMAIN cache
    \/ cache[f] = <<>>
    \/ \A i \in DOMAIN cache[f] : disk[f].mtime > cache[f][i].ParsedAt

\* C7: IsStale(f) is true exactly when f cannot be stat'ed, or has no (or an
\* empty) cache entry, or its mtime is greater than every cached parsedAt;
\* and the call leaves the cache as it was.
C7_IsStale ==
    \A p \in Procs :
        Returned(p, {"IsStale"}) =>
            /\ call[p].res = ClaimedStale(call[p].file)
            /\ cache = call[p].cache0

\* IsStale has answered false for a file whose cached chunks have different
\* parsedAt and whose mtime lies above the smaller one.
C7_Witness ==
    \E p \in Procs :
        /\ Returned(p, {"IsStale"}) /\ ~call[p].res
        /\ \E m \in Range(cache[call[p].file]) :
               disk[call[p].file].mtime > m.ParsedAt

\* The file of p's call was cached and stale by its mtime when the call began
\* (the files do not change during a call of SpecSeq).
StaleByMtimeBefore(p) ==
    /\ call[p].file \in DOMAIN call[p].cache0
    /\ disk[call[p].file].mtime > MaxParsedAt(call[p].cache0[call[p].file])

\* C8 as stated: once such a file is re-extracted and re-indexed
\* successfully, IsStale(f) is false.
C8_ReindexMakesFresh ==
    \A p \in Procs :
        Returned(p, {"chunk"}) /\ ~call[p].err /\ StaleByMtimeBefore(p) =>
            ~IsStale(disk, cache, call[p].file)

\* C8, first half: setting the mtime of a file that is not stale to a value
\* greater than its chunks' largest parsedAt makes it stale.
TouchMakesStale ==
    \A f \in Files, t \in Times :
        /\ TouchFile(f, t)
        /\ ~IsStale(disk, cache, f)
        /\ t > MaxParsedAt(cache[f])
        => IsStale(disk', cache', f)

\* C8, second half as amended: re-indexing makes the file fresh when at least
\* one chunk was extracted and the mtime is not later than the extraction.
ReindexMakesFreshIfNotLater ==
    \A p \in Procs :
        /\ Returned(p, {"chunk"}) /\ ~call[p].err
        /\ call[p].chunks # <<>>
        /\ disk[call[p].file].mtime <= MaxParsedAt(call[p].chunks)
        => ~IsStale(disk, cache, call[p].file)

\* C8 (amended): staleness monotonicity, with re-indexing making the file
\* fresh only if it yields a chunk and the mtime is not later than the
\* extraction time.
C8_StalenessMonotonicity ==
    [][TouchMakesStale]_vars /\ [](ReindexMakesFreshIfNotLater)

\* A file that was stale by its mtime has been re-indexed and is fresh.
C8_Witness ==
    \E p \in Procs :
        /\ Returned(p, {"chunk"}) /\ ~call[p].err
        /\ StaleByMtimeBefore(p)
        /\ ~IsStale(disk, cache, call[p].file)

\* C9: after a successful Remove(f), and after a successful Index(f) with no
\* chunks, the store has no document of f, the cache has no entry for f, and
\* the documents and entries of the other files are what they were.
C9_FileForgotten ==
    \A p \in Procs :
        /\ Returned(p, {"chunk", "Remove"}) /\ ~call[p].err
        /\ call[p].chunks = <<>>
        => /\ StoredFor(store, call[p].file) = {}
           /\ call[p].file \notin DOMAIN cache
           /\ \A g \in Files \ {call[p].file} :
                /\ StoredFor(store, g) = StoredFor(call[p].store0, g)
                /\ Entry(cache, g) = Entry(call[p].cache0, g)

\* Index has returned nil for a file that was indexed and now yields no
\* chunk, while another file is indexed.
C9_Witness ==
    \E p \in Procs :
        /\ Returned(p, {"chunk"}) /\ ~call[p].err
        /\ call[p].chunks = <<>>
        /\ call[p].file \in DOMAIN call[p].cache0
        /\ StoredFor(call[p].store0, call[p].file) # {}
        /\ \E g \in Files \ {call[p].file} : g \in DOMAIN cache

-----------------------------------------------------------------------------
(* Properties of the concurrent callers under Spec *)

\* The cache entry of f and the stored documents of f describe the same chunks.
Agree(st, ch, f) ==
    {ChunkMetadata(GetChunk(d)) : d \in StoredFor(st, f)}
        = (IF f \in DOMAIN ch THEN Range(ch[f]) ELSE {})

\* C2: whenever Index(f) or Remove(f) returns nil, the cache entry of f and the
\* store's documents of f describe the same chunk set (paths, types, parsedAt),
\* whichever way the handler, the reconciliation and GetChunkCode interleave.
C2_CacheAgreesWithStore ==
    [][\A p \in Procs :
          (call[p].pc \in {"uncache", "cache"} /\ call'[p].pc = "done")
              => Agree(store', cache', call[p].file)]_vars

\* C6: when IndexWorkspace, or the handler given the file's path, has run to
\* completion, a file that was indexed and is deleted from disk has no
\* document left in the store and no cache entry.
C6_DeletedFileForgotten ==
    \A p \in {"watcher", "reconcile"} :
        call[p].pc = "finished" =>
            \A f \in call[p].gone :
                ~disk[f].exists =>
                    StoredFor(store, f) = {} /\ f \notin DOMAIN cache

-----------------------------------------------------------------------------
(* Properties of the watcher under SpecWatch *)

\* C4: when a search reads the store, the handler has re-indexed every path
\* that was in the watcher's pending set when the request started.
C4_SearchBarrier ==
    (call["request"].op = "search" /\ call["request"].pc = "done")
        => call["request"].awaiting = {}

\* The watcher's callback calls the handler in this step.
HandlerInvoked ==
    call["watcher"].pc = "idle" /\ call'["watcher"].op = "handler"

\* C5: once Watcher.Close has returned the handler is never invoked.
C5_NoHandlerAfterClose == [][closed => ~HandlerInvoked]_vars

-----------------------------------------------------------------------------
(* Properties of the startup reload under SpecLoad *)

\* The files named by the IDs the collection held when loadCache began.
StoredFiles(p) == {SplitN2(d.ID)[1] : d \in call[p].store0}

\* C10: after loadCache, a file of a stored ID that is missing from disk has no
\* document left and no cache entry; one that exists has a cache entry with
\* one {type, path, parsedAt} record per stored chunk of the file; and the
\* cache has no entry for any other file.
C10_CacheReloaded ==
    \A p \in Procs :
        call[p].pc = "loaded" =>
            /\ \A f \in StoredFiles(p) :
                IF disk[f].exists
                THEN /\ f \in DOMAIN cache
                     /\ Len(cache[f]) = Cardinality(StoredFor(store, f))
                     /\ Agree(store, cache, f)
                ELSE StoredFor(store, f) = {} /\ f \notin DOMAIN cache
            /\ DOMAIN cache \subseteq StoredFiles(p)

\* A reload that deleted the documents of a missing file and rebuilt the
\* two-record entry of an existing one.
C10_Witness ==
    \E p \in Procs :
        /\ call[p].pc = "loaded"
        /\ \E f \in StoredFiles(p) : ~disk[f].exists
        /\ \E f \in StoredFiles(p) : disk[f].exists /\ Len(cache[f]) = 2

-----------------------------------------------------------------------------
(* Properties of the extraction under SpecParse *)

\* The chunks Parser.Chunk has just returned.
Extracted == IF call["request"].pc = "chunked" THEN call["request"].chunks ELSE <<>>

\* C11: no two chunks of one extraction pass have the same ID, whatever the
\* nesting levels they come from.
C11_UniqueIDs ==
    \A i, j \in DOMAIN Extracted :
        i # j => ID(Extracted[i]) # ID(Extracted[j])

\* The node of the tree at a position.
RECURSIVE NodeAt(_, _)
NodeAt(tree, pos) ==
    IF Len(pos) = 1 THEN tree[pos[1]]
    ELSE NodeAt(tree[pos[1]].children, Tail(pos))

\* The usedPaths scope of a chunk: the position of the node whose children
\* were being walked when it was made.
Scope(c) == SubSeq(c.End, 1, Len(c.End) - 1)

\* The part of a path up to and including its last "::".
ParentPart(path) ==
    LET seps == {i \in DOMAIN path : path[i] = "::"} IN
    IF seps = {} THEN <<>>
    ELSE SubSeq(path, 1, CHOOSE i \in seps : \A j \in seps : j <= i)

\* The path derived for a chunk before collisions are resolved: the name of
\* its node under the chunk's parent part, or the hash of the node's text.
DerivedPath(c) ==
    LET n == NodeAt(call["request"].src, c.End) IN
    IF n.kind \in NamedChunks \ InvalidQuery /\ Len(n.names) = 1
    THEN ParentPart(c.Path) \o <<n.names[1]>>
    ELSE Hash(n.text)

\* How many chunks of the same scope up to chunk i have its derived path.
Rank(i) ==
    Cardinality({j \in 1..i :
        /\ Scope(Extracted[j]) = Scope(Extracted[i])
        /\ DerivedPath(Extracted[j]) = DerivedPath(Extracted[i])})

\* C12: within one usedPaths scope the first chunk with derived path p gets p
\* and the k-th, k >= 2 in traversal order, gets p-k.
C12_CollisionSuffixes ==
    \A i \in DOMAIN Extracted :
        Extracted[i].Path =
            IF Rank(i) = 1 THEN DerivedPath(Extracted[i])
            ELSE Sprintf(DerivedPath(Extracted[i]), Rank(i))

\* Three same-named functions in one scope: helper, helper-2, helper-3.
C12_Witness ==
    \E i \in DOMAIN Extracted :
        Rank(i) = 3 /\ Extracted[i].Path = <<"helper", "-", "3">>

\* The children of the node at position pos (of the root when pos is empty).
ChildrenAt(pos) ==
    IF pos = <<>> THEN call["request"].src
    ELSE NodeAt(call["request"].src, pos).children

\* The scopes one extraction walks: the root and every class.
Scopes ==
    {<<>>} \cup {<<i>> : i \in {k \in DOMAIN call["request"].src :
                    call["request"].src[k].kind \in ExtractChildrenIn}}

\* The chunks of scope sc whose span covers child i of that scope.
Covering(sc, i) ==
    {k \in DOMAIN Extracted :
        /\ Scope(Extracted[k]) = sc
        /\ Extracted[k].Start[Len(sc) + 1] <= i
        /\ i <= Extracted[k].End[Len(sc) + 1]}

\* Child i of scope sc is a folded node whose run starts at child s and is
\* followed by child n (one past the last child when the run ends the level).
FoldRun(sc, s, i, n) ==
    LET kids == ChildrenAt(sc) IN
    /\ s <= i /\ i < n
    /\ \A k \in s..(n - 1) : kids[k].kind \in FoldIntoNextNode
    /\ s = 1 \/ kids[s - 1].kind \notin FoldIntoNextNode
    /\ n = Len(kids) + 1 \/ kids[n].kind \notin FoldIntoNextNode

\* C13: a run of folded nodes directly followed by a node that is neither
\* skipped nor folded lies in that node's chunk, which starts at the first node
\* of the run and ends at the node; a run followed by a skipped node or by the
\* end of the level gives one hash-named chunk per folded node; every folded
\* node lies in exactly one chunk of its level.
C13_FoldCorrectness ==
    call["request"].pc = "chunked" =>
    \A sc \in Scopes :
        LET kids == ChildrenAt(sc) IN
        \A s, i \in DOMAIN kids : \A n \in 1..(Len(kids) + 1) :
            FoldRun(sc, s, i, n) =>
                /\ Cardinality(Covering(sc, i)) = 1
                /\ LET c == Extracted[CHOOSE k \in Covering(sc, i) : TRUE] IN
                   IF n <= Len(kids) /\ kids[n].kind \notin SkipTypes
                   THEN /\ c.Start = sc \o <<s>>
                        /\ c.End = sc \o <<n>>
                        /\ c.Source = [k \in 1..(n - s + 1) |-> kids[s + k - 1].text]
                   ELSE /\ c.Start = sc \o <<i>>
                        /\ c.End = sc \o <<i>>
                        /\ c.Source = <<kids[i].text>>
                        /\ DerivedPath(c) = Hash(kids[i].text)

\* A pass that folded a run of comments into the named node after them and
\* left a comment standing before an import.
C13_Witness ==
    /\ call["request"].pc = "chunked"
    /\ \E sc \in Scopes : \E s, i \in DOMAIN ChildrenAt(sc) :
        /\ FoldRun(sc, s, i, i + 1)
        /\ i + 1 <= Len(ChildrenAt(sc))
        /\ ChildrenAt(sc)[i + 1].kind \in NamedChunks
    /\ \E i \in DOMAIN call["request"].src :
        /\ FoldRun(<<>>, i, i, i + 1)
        /\ i + 1 <= Len(call["request"].src)
        /\ call["request"].src[i + 1].kind \in SkipTypes

\* C15: every chunk's summary is one line of at most chunkSummaryMaxChars
\* characters, the ellipsis included.
C15_SummaryLength ==
    \A i \in DOMAIN Extracted :
        /\ Len(Extracted[i].Summary) <= chunkSummaryMaxChars
        /\ \A k \in DOMAIN Extracted[i].Summary : Extracted[i].Summary[k] # "\n"

-----------------------------------------------------------------------------
(* Properties of the searches under SpecSearch *)

\* The lines a search has just returned, and the similarity the engine gave
\* the chunk of a line.
Lines ==
    IF call["request"].pc = "done"
        /\ call["request"].op \in {"Search", "FindSimilarChunks"}
    THEN call["request"].res ELSE <<>>

SimilarityOf(line) ==
    LET rs == call["request"].results IN
    rs[CHOOSE i \in DOMAIN rs : rs[i].ID = line.ID].Similarity

\* What C14 says of the returned lines apart from their order.
WithinLimits ==
    /\ Len(Lines) <= call["request"].maxCount
    /\ \A i \in DOMAIN Lines :
        /\ SimilarityOf(Lines[i]) >= call["request"].minSim
        /\ call["request"].op = "FindSimilarChunks" =>
                Lines[i].ID # call["request"].id
        /\ Lines[i].Type \in call["request"].types

\* C14 as stated: within the limits, and strictly descending by similarity.
C14_StrictlyDescending ==
    /\ WithinLimits
    /\ \A i, j \in DOMAIN Lines :
        i < j => SimilarityOf(Lines[i]) > SimilarityOf(Lines[j])

\* C14: the lines returned by Search and FindSimilarChunks hold no candidate
\* below the minimum similarity, number at most the cap, never hold the
\* caller's own chunk in FindSimilarChunks, hold only chunks of the allowed
\* types, and are in descending order of similarity, candidates of equal
\* similarity in either order.
C14_SearchResults ==
    /\ WithinLimits
    /\ \A i, j \in DOMAIN Lines :
        i < j => SimilarityOf(Lines[i]) >= SimilarityOf(Lines[j])

\* A search that stopped at the cap with a further candidate above the
\* minimum left over.
C14_Witness ==
    /\ call["request"].op = "Search"
    /\ Len(Lines) = maxResults
    /\ Cardinality({i \in DOMAIN call["request"].results :
            call["request"].results[i].Similarity >= minSimilarity})
                > maxResults

-----------------------------------------------------------------------------
(* FlushPending under SpecWatch *)

\* A caller's FlushPending returns in this step.
FlushReturns(p) == call[p].pc = "flush" /\ call'[p].pc # "flush"

\* C18: FlushPending makes an armed timer due at once and returns in the same
\* step, before the handler has been given the batch; the pending set is not
\* changed by the call.
C18_FlushReschedules ==
    [][\A p \in Procs :
          FlushReturns(p) =>
              /\ debounceTimer = "armed" => debounceTimer' = "due"
              /\ pendingFiles' = pendingFiles
              /\ call'["watcher"] = call["watcher"]
              /\ fired' = fired]_vars

\* FlushPending has returned to a search while the batch it triggered is
\* still pending: the timer is due and the handler has not been called.
C18_Witness ==
    /\ call["request"].op = "search"
    /\ call["request"].pc = "query"
    /\ debounceTimer = "due"
    /\ pendingFiles # {}
    /\ call["watcher"].pc = "idle"

-----------------------------------------------------------------------------
(* GetIndexStatus under SpecStatus *)

\* The caller is inside processFiles: a batch is being processed.
InBatch(q) ==
    /\ call[q].op \in BatchOps
    /\ call[q].pc \notin {"idle", "flush", "walk", "finished"}

\* The files of the caller's batch that are not processed yet.
Remaining(q) == IF InBatch(q) THEN Len(call[q].batch) ELSE 0

\* GetIndexStatus reads the analyzer's two fields in this step.
StatusRead(p) == call[p].pc = "idle" /\ call'[p].pc = "count"

\* C16: the lastIndexedAt that GetIndexStatus reports is zero whenever a batch
\* is being processed, and non-zero when none is and a reconciliation has just
\* finished.
C16_StatusTimestamp ==
    [][\A p \in Procs :
          StatusRead(p) =>
              /\ (\E q \in Procs : InBatch(q)) => lastIndexedAt = ZeroTime
              /\ /\ \A q \in Procs : ~InBatch(q)
                 /\ call["reconcile"].pc = "finished"
                 => lastIndexedAt # ZeroTime]_vars

\* C17: the count that GetIndexStatus reads is the number of files not yet
\* processed in all the batches in flight, and the call never has to wait
\* for a batch before it can add the watcher's pending set.
C17_PendingCount ==
    /\ [][\A p \in Procs :
            StatusRead(p) =>
                nPendingFiles = Remaining("watcher") + Remaining("reconcile")
                                    + Remaining("request")]_vars
    /\ [](\A p \in Procs : call[p].pc = "count" => MuFree)

-----------------------------------------------------------------------------
(* GetChunkCode under Spec *)

\* getSingleChunkCode looks the chunk up in this step.
LooksUp(p) ==
    /\ call[p].op = "getChunkCode"
    /\ call[p].pc = "done"
    /\ Len(call'[p].blocks) > Len(call[p].blocks)

\* The file of the request still has the content the request extracted, and
\* that content has a chunk under the requested ID.
ChunkIsCurrent(p) ==
    LET f == call[p].file IN
    /\ ~call[p].err
    /\ disk[f].exists
    /\ disk[f].ver = call[p].src
    /\ Tail(call[p].id) \in Range(ChunkPaths(disk[f].ver))

\* C19: for an ID whose chunk exists in the current content of its file,
\* GetChunkCode returns the chunk's text in that content, whatever the
\* watcher's handler and the reconciliation do to the file meanwhile.
C19_CurrentSource ==
    [][\A p \in Procs :
          LooksUp(p) /\ ChunkIsCurrent(p) =>
              LET block == call'[p].blocks[Len(call[p].blocks) + 1] IN
              /\ block.Error = ""
              /\ block.Source = disk[call[p].file].ver]_vars

-----------------------------------------------------------------------------
(* GetChunkCode under SpecGet *)

\* GetChunkCode has built its whole text.
Replied(p) == call[p].op = "getChunkCode" /\ call[p].pc = "replied"

\* What the block of an ID may hold when no file changes during the request:
\* the invalid-ID marker for an ID without "::", a processing error when the
\* file is missing or the store failed, and otherwise the chunk's source when
\* the file has the chunk and the not-found marker when it has not.
BlockFits(block, id) ==
    LET parts == SplitN2(id) IN
    /\ block.ID = id
    /\ IF Len(parts) # 2 THEN block.Error = "<invalid chunk id>"
       ELSE IF ~disk[parts[1]].exists THEN block.Error = "<processing error>"
       ELSE \/ block.Error = "<processing error>"
            \/ IF parts[2] \in Range(ChunkPaths(disk[parts[1]].ver))
               THEN block.Error = "" /\ block.Source = disk[parts[1]].ver
               ELSE block.Error = "<source not found for chunk>"

\* C20: GetChunkCode answers with one block per requested ID, in request
\* order, and the block of each ID is what that ID deserves on its own,
\* whatever the other IDs of the request are.
C20_OneBlockPerID ==
    \A p \in Procs :
        Replied(p) =>
            /\ Len(call[p].blocks) = Len(call[p].asked)
            /\ \A i \in DOMAIN call[p].asked :
                    BlockFits(call[p].blocks[i], call[p].asked[i])

\* A request whose first ID has no "::" and whose second ID is answered with
\* the chunk's source.
C20_Witness ==
    /\ Replied("request")
    /\ Len(call["request"].asked) = 2
    /\ call["request"].blocks[1].Error = "<invalid chunk id>"
    /\ call["request"].blocks[2].Error = ""

-----------------------------------------------------------------------------
(* File types under SpecClassify *)

\* The global table followed by the language's table.
AllRules == globalFileTyleRules \o FileTypeRules

\* The positions of the rules that match the file.
Matching(f) == {i \in DOMAIN AllRules : PathMatch(AllRules[i].Pattern, PathOf(f))}

\* The type of the first rule that matches, src when none does.
FirstRuleType(f) ==
    IF Matching(f) = {} THEN "src"
    ELSE AllRules[CHOOSE i \in Matching(f) : \A j \in Matching(f) : i <= j].Type

\* The types of all the chunks a call holds, the store holds and the cache
\* holds.
TypesInUse ==
    UNION {{call[p].chunks[i].Type : i \in DOMAIN call[p].chunks} : p \in Procs}
    \cup {d.Metadata.type : d \in store}
    \cup UNION {{cache[f][i].Type : i \in DOMAIN cache[f]} : f \in DOMAIN cache}

\* C21: every file is given the type of the first rule that matches it in
\* the global table followed by the language's table, src when there is none;
\* a file of type ignore is not chunked, and no chunk of type ignore is held
\* by a call, the store or the cache.
C21_FileTypes ==
    /\ \A f \in DOMAIN disk : classifyFileType(f) = FirstRuleType(f)
    /\ \A p \in Procs :
          /\ call[p].op = "chunk"
          /\ call[p].pc # "parse"
          /\ FirstRuleType(call[p].file) = "ignore"
          => call[p].err /\ call[p].chunks = <<>>
    /\ \A p \in Procs :
          call[p].op = "chunk" =>
              \A i \in DOMAIN call[p].chunks :
                  call[p].chunks[i].Type = FirstRuleType(call[p].file)
    /\ \A f \in DOMAIN disk :
          FirstRuleType(f) = "ignore" =>
              StoredFor(store, f) = {} /\ f \notin DOMAIN cache
    /\ "ignore" \notin TypesInUse

\* Analyzer.chunk has returned for a file that exists and is to be ignored by
\* the language's rules, after a file that a global rule makes a test file
\* although a rule of the language would ignore it was indexed.
C21_Witness ==
    /\ Returned("request", {"chunk"})
    /\ call["request"].file = "dist/c.ts"
    /\ disk["dist/c.ts"].exists
    /\ \E d \in StoredFor(store, "tests/dist/f.ts") : d.Metadata.type = "tests"

-----------------------------------------------------------------------------
(* Idempotence under SpecReindex *)

\* A stored document and a cached chunk without their parsedAt.
Undated(d) == [d EXCEPT !.Metadata.parsedAt = <<>>]
UndatedCache(ch, f) ==
    IF f \in DOMAIN ch
    THEN [i \in DOMAIN ch[f] |-> [ch[f][i] EXCEPT !.ParsedAt = 0]]
    ELSE <<>>

\* C22: when an unchanged file has been indexed a second time, the store and
\* the cache hold for it what they held after the first time, parsedAt apart.
C22_Idempotence ==
    \A p \in Procs :
        Returned(p, {"chunk"}) /\ call[p].pass = 2 /\ ~call[p].err =>
            LET f == call[p].file IN
            /\ {Undated(d) : d \in StoredFor(store, f)}
                    = {Undated(d) : d \in StoredFor(call[p].store0, f)}
            /\ UndatedCache(cache, f) = UndatedCache(call[p].cache0, f)

-----------------------------------------------------------------------------
(* The watcher's lock under SpecStatus *)

\* C23: while the handler processes a batch, a received event can be handled
\* (its path joins the pending set), and FlushPending and PendingCount can
\* return: none of them has to wait for the handler.
C23_HandlerOutsideLock ==
    InBatch("watcher") =>
        /\ loop # NoFile => ENABLED handleEvent
        /\ \A p \in Procs : call[p].pc = "flush" => ENABLED FlushPending(p)
        /\ \A p \in Procs : call[p].pc = "count" => ENABLED PendingCount(p)

-----------------------------------------------------------------------------
(* The pending set under SpecBatch *)

\* Watcher.handleEvent runs in this step.
EventHandled == loop # NoFile /\ loop' = NoFile

\* C24: the path of a handled event is in the pending set; a callback passes
\* the handler exactly the paths pending at that moment, each once; and a
\* path only leaves the pending set at the end of a callback whose batch
\* contained it, together with all the others of that batch.
C24_NoLostChange ==
    [][/\ EventHandled => loop \in pendingFiles'
       /\ HandlerInvoked =>
            /\ Range(call'["watcher"].given) = pendingFiles
            /\ Len(call'["watcher"].given) = Cardinality(pendingFiles)
            /\ pendingFiles' = pendingFiles
       /\ pendingFiles \ pendingFiles' # {} =>
            /\ call["watcher"].op = "handler"
            /\ call["watcher"].pc = "finished"
            /\ pendingFiles = Range(call["watcher"].given)
            /\ pendingFiles' = {}]_vars

\* The handler has finished a batch of two paths, which are about to leave
\* the pending set, while a further event waits to be handled.
C24_Witness ==
    /\ call["watcher"].op = "handler"
    /\ call["watcher"].pc = "finished"
    /\ Len(call["watcher"].given) = 2
    /\ loop # NoFile

\* C25: a handled event puts its path into the pending set and starts the
\* debounce interval anew, and the handler is not invoked while the interval
\* started by the latest event is still running.
C25_Debounce ==
    [][/\ EventHandled => loop \in pendingFiles' /\ debounceTimer' = "armed"
       /\ HandlerInvoked => debounceTimer # "armed"]_vars

\* The order of the files in the slice processFiles was called with that
\* the caller has reached.
Position(p) == Len(call[p].given) - Len(call[p].batch) + 1

\* C26: processFiles works on the files of its slice one at a time in slice
\* order, and the slice of a watcher batch lists the paths in the order in
\* which they joined the pending set.
C26_BatchOrder ==
    /\ [](\A p \in Procs :
            InBatch(p) /\ call[p].batch # <<>> =>
                call[p].file = call[p].given[Position(p)])
    /\ [][HandlerInvoked =>
            call'["watcher"].given = call["watcher"].added]_vars

-----------------------------------------------------------------------------
(* Failing files under SpecSkip *)

\* Parser.Chunk returns an error to a batch in this step.
ChunkFails(p) ==
    /\ call[p].op \in BatchOps
    /\ call[p].pc = "parse"
    /\ call'[p].pc = "done" /\ call'[p].err

\* processFiles goes on after a failed file in this step.
GoesOn(p) ==
    /\ call[p].op \in BatchOps
    /\ call[p].pc = "done" /\ call[p].err
    /\ call'[p].pc # "done"

\* The store and the cache hold for f what one indexing of its current
\* content leaves.
Indexed(f) ==
    LET paths == ChunkPaths(disk[f].ver) IN
    /\ disk[f].exists
    /\ {d.Metadata.path : d \in StoredFor(store, f)} = Range(paths)
    /\ \A d \in StoredFor(store, f) : d.Content = disk[f].ver
    /\ IF paths = <<>> THEN f \notin DOMAIN cache
       ELSE /\ f \in DOMAIN cache
            /\ [i \in DOMAIN cache[f] |-> cache[f][i].Path] = paths

\* C27: a file of a batch whose reading or parsing fails leaves the store and
\* the cache as they are and IsStale as it was; processFiles goes on with the
\* next file of the slice; the work on one file never touches what is held
\* for another; and when the batch is finished every file of it that did not
\* fail has been indexed.
C27_FailingFileSkipped ==
    /\ [][\A p \in Procs :
            /\ ChunkFails(p) =>
                /\ store' = store /\ cache' = cache
                /\ \A f \in Files :
                      IsStale(disk', cache', f) = IsStale(disk, cache, f)
            /\ GoesOn(p) =>
                /\ store' = store /\ cache' = cache
                /\ IF Len(call[p].batch) > 1
                   THEN /\ call'[p].pc = "parse"
                        /\ call'[p].file = call[p].batch[2]
                   ELSE call'[p].pc = "stamp"
            /\ InBatch(p) =>
                \A f \in Files \ {call[p].file} :
                    /\ StoredFor(store', f) = StoredFor(store, f)
                    /\ Entry(cache', f) = Entry(cache, f)]_vars
    /\ [](\A p \in Procs :
            call[p].op \in BatchOps /\ call[p].pc = "finished" =>
                \A f \in Range(call[p].given) \ call[p].failed : Indexed(f))

\* A batch is finished whose first file exists, was stale and could not be
\* parsed, and is still stale, and whose second file was indexed.
C27_Witness ==
    LET c == call["watcher"] IN
    /\ c.op = "handler" /\ c.pc = "finished"
    /\ Len(c.given) = 2
    /\ c.given[1] \in c.failed
    /\ disk[c.given[1]].exists
    /\ IsStale(disk, cache, c.given[1])
    /\ c.given[2] \notin c.failed
    /\ Indexed(c.given[2])

-----------------------------------------------------------------------------
(* Nested paths and naming under SpecParse *)

\* The chunk's node has a namedChunks entry whose name query has one match.
NamedByQuery(c) ==
    LET n == NodeAt(call["request"].src, c.End) IN
    n.kind \in NamedChunks \ InvalidQuery /\ Len(n.names) = 1

\* C28: a chunk named by its name query inside a container has the path
\* R::name, where R is the path the container's chunk carries.
C28_ParentResolvedPath ==
    \A i, j \in DOMAIN Extracted :
        /\ Len(Extracted[i].End) > 1
        /\ NamedByQuery(Extracted[i])
        /\ Extracted[j].End = Scope(Extracted[i])
        => ParentPart(Extracted[i].Path) = Extracted[j].Path \o <<"::">>

\* The chunks that end at child i of scope sc.
MadeFrom(sc, i) == {k \in DOMAIN Extracted : Extracted[k].End = sc \o <<i>>}

\* Path is base, or base with a collision suffix.
NamedAs(path, base) ==
    path = base \/ \E k \in 2..(MaxNodes + 1) : path = Sprintf(base, k)

-----------------------------------------------------------------------------
(* Staleness and the content on disk, under SpecSeq *)

\* File f is rewritten with other content while IsStale(f) is false.
ModifiedWhileFresh(f) ==
    /\ AllIdle
    /\ disk[f].exists
    /\ ~IsStale(disk, cache, f)
    /\ \E v \in ContentsOf(f) : WriteFile(f, v)

\* C30: a modification of a file whose chunks are cached and not stale makes
\* IsStale(f) true, so that IsStale(f) is false only while the chunks are
\* those of the content on disk; this includes a modification in the second
\* in which the chunks were extracted.
C30_ModificationDetected ==
    [][\A f \in Files : ModifiedWhileFresh(f) => IsStale(disk', cache', f)]_vars

-----------------------------------------------------------------------------
(* SpecCount: concurrent calls of Analyzer.processFiles, reduced to what they
   do to nPendingFiles.  The write of len(filePaths) is made without indexMu;
   the decrement is a load and a store made under indexMu, so the unlocked
   write of another call can fall between the two. *)

MaxBatch == 2

\* p is inside the loop of processFiles or about to stamp lastIndexedAt.
Counting(p) == call[p].pc \in {"chunk", "lock", "unlock", "stamp"}

\* indexMu is held from the load of the counter to its store.
IndexMuFree == \A q \in Procs : call[q].pc # "unlock"

\* A decrement without the clamp at 0.
DecrementUnclamped(n) == n - 1

\* a.nPendingFiles = max(a.nPendingFiles-1, 0)
Decrement(n) == Max(n - 1, 0)

\* processFiles(filePaths) with n paths: the early return for an empty
\* slice, else a.nPendingFiles = len(filePaths).
processFiles(p, n) ==
    /\ call[p].pc = "idle"
    /\ IF n = 0
       THEN /\ call' = [call EXCEPT ![p] = [Idle EXCEPT !.pc = "finished",
                                                        !.op = "processFiles"]]
            /\ UNCHANGED nPendingFiles
       ELSE /\ call' = [call EXCEPT ![p] = [Idle EXCEPT !.pc = "chunk",
                                                        !.op = "processFiles",
                                                        !.left = n]]
            /\ nPendingFiles' = n
    /\ UNCHANGED <<env, index, lastIndexedAt, watch>>

\* a.chunk(ctx, filePath) has returned.
ChunkReturned(p) ==
    /\ call[p].pc = "chunk"
    /\ call' = [call EXCEPT ![p].pc = "lock"]
    /\ UNCHANGED <<env, index, progress, watch>>

\* a.indexMu.Lock() and the load of a.nPendingFiles.
LockAndLoad(p) ==
    /\ call[p].pc = "lock"
    /\ IndexMuFree
    /\ call' = [call EXCEPT ![p].pc = "unlock", ![p].read = nPendingFiles]
    /\ UNCHANGED <<env, index, progress, watch>>

\* The store of the decremented value and a.indexMu.Unlock(); the loop goes
\* on or ends.
StoreAndUnlock(p) ==
    /\ call[p].pc = "unlock"
    /\ nPendingFiles' = Decrement(call[p].read)
    /\ call' = [call EXCEPT ![p].left = @ - 1, ![p].read = 0,
                            ![p].pc = IF call[p].left > 1 THEN "chunk"
                                      ELSE "stamp"]
    /\ UNCHANGED <<env, index, lastIndexedAt, watch>>

\* processFiles has returned.
processFilesReturn(p) ==
    /\ call[p].pc = "finished"
    /\ call' = [call EXCEPT ![p] = Idle]
    /\ UNCHANGED <<env, index, progress, watch>>

NextCount ==
    \/ \E p \in Procs : \E n \in 0..MaxBatch : processFiles(p, n)
    \/ \E p \in Procs : ChunkReturned(p)
    \/ \E p \in Procs : LockAndLoad(p)
    \/ \E p \in Procs : StoreAndUnlock(p)
    \/ \E p \in Procs : IndexMuFree /\ Stamp(p)
    \/ \E p \in Procs : processFilesReturn(p)

SpecCount == Init /\ [][NextCount]_vars

\* C31: nPendingFiles is never negative, and it is 0 whenever no call of
\* processFiles is running, whatever the calls and their interleaving.
C31_CounterBounds ==
    /\ nPendingFiles >= 0
    /\ (\A p \in Procs : ~Counting(p)) => nPendingFiles = 0

\* Two calls overlap and one of them is about to decrement a counter that
\* is already 0 while the other still has a file to go.
C31_Witness ==
    \E p, q \in Procs :
        /\ p # q
        /\ call[p].pc = "unlock" /\ call[p].read = 0
        /\ Counting(q) /\ call[q].left > 0

-----------------------------------------------------------------------------
(* The watcher and empty batches, under SpecWatch *)

\* The step is the watcher calling its handler.
HandlerCalled ==
    call["watcher"].pc = "idle" /\ call'["watcher"].pc # "idle"

\* The step is a timer callback that finds the pending set empty.
EmptyExpiry == fired' < fired /\ pendingFiles = {}

\* The step is caller p's FlushPending finding no timer.
FlushWithoutTimer(p) ==
    call[p].pc = "flush" /\ call'[p].pc # "flush" /\ debounceTimer = "nil"

\* C32: the handler is only ever called with the paths of a non-empty pending
\* set; a timer callback that finds the pending set empty, whether the timer
\* expired or was reset by FlushPending, calls nothing and changes nothing but
\* its own end; FlushPending with no timer armed yet leaves the watcher and the
\* analyzer's state as they are.
C32_NoEmptyBatch ==
    [][/\ HandlerCalled =>
            /\ call'["watcher"].given # <<>>
            /\ Range(call'["watcher"].given) = pendingFiles
       /\ EmptyExpiry =>
            UNCHANGED <<call, progress, index, pendingFiles, debounceTimer>>
       /\ \A p \in Procs : FlushWithoutTimer(p) =>
            UNCHANGED <<watch, progress, index>>]_vars

\* A search request has called FlushPending before any event armed a timer:
\* there is still no timer, no callback is due and the handler is not running.
C32_Witness ==
    /\ call["request"].op = "search" /\ call["request"].pc = "query"
    /\ debounceTimer = "nil"
    /\ fired = 0
    /\ call["watcher"].pc = "idle"

-----------------------------------------------------------------------------
(* SpecLive: the watcher on one file with its handler, a search request and
   Close, under the scheduling that lets every goroutine that can take a step
   take it eventually *)

\* The handler's goroutine: the steps of processFiles over its batch.
HandlerStep ==
    \/ Parse("watcher")
    \/ Extract("watcher")
    \/ Delete("watcher", TRUE)
    \/ Uncache("watcher")
    \/ Add("watcher", TRUE)
    \/ Cache("watcher")
    \/ NextFile("watcher")
    \/ Stamp("watcher")

NextLive ==
    \/ \E f \in Watched : \E v \in ContentsOf(f) \cap Edits : WriteNotified(f, v)
    \/ \E f \in Watched : Receive(f)
    \/ handleEvent
    \/ TimerFire
    \/ \E changes \in Perms(pendingFiles) : processPendingFiles(changes)
    \/ CallbackEnd
    \/ Close
    \/ BeginSearch("request")
    \/ FlushPending("request")
    \/ Query("request")
    \/ Return("request")
    \/ HandlerStep

\* The watch loop receives what is in the channel and handles it, a timer
\* that is armed expires, its callback gets mu, and the handler, once called,
\* runs to its end.
FairLive ==
    /\ WF_vars(\E f \in Watched : Receive(f))
    /\ WF_vars(handleEvent)
    /\ WF_vars(TimerFire)
    /\ WF_vars(\E changes \in Perms(pendingFiles) : processPendingFiles(changes))
    /\ WF_vars(HandlerStep)
    /\ WF_vars(CallbackEnd)

SpecLive == Init /\ [][NextLive]_vars /\ FairLive

\* No event joins the channel in this step.
NoArrival == events' \subseteq events

\* The handler is running on a batch that contains f.
Passed(f) ==
    /\ call["watcher"].pc # "idle"
    /\ f \in Range(call["watcher"].given)

\* C33: if the watcher is never closed and events stop arriving from some
\* point on, every path of the pending set is eventually passed to the
\* handler and the pending set eventually is empty for good.
C33_PendingDrained ==
    ([]~closed /\ <>[][NoArrival]_vars) =>
        /\ \A f \in Watched : (f \in pendingFiles) ~> Passed(f)
        /\ <>[](pendingFiles = {})

\* The file's current content has been through a batch and the watcher is at
\* rest: nothing pending, nothing in the channel, no callback due, not closed.
C33_Witness ==
    /\ ~closed
    /\ \A f \in Watched :
          /\ disk[f].ver = 1
          /\ \E d \in StoredFor(store, f) : d.Content = 1
    /\ pendingFiles = {} /\ events = {} /\ loop = NoFile
    /\ fired = 0 /\ debounceTimer = "fired"
    /\ call["watcher"].pc = "idle"
====
